---- MODULE Spec2Model ----
(***************************************************************************)
(* Session lifecycle engine of macross-contrib/session: the provider       *)
(* registry, the cookie provider, a stateful provider, and the Manager     *)
(* (both generations of its API: SessionStart/SessionDestroy/              *)
(* SessionRegenerateID of session.go and Start/Destory/RegenerateId of the *)
(* later manager file).                                                    *)
(*                                                                         *)
(* Strings that pass through a conversion (session ids, cookie values,     *)
(* keys) are sequences of byte codes, so that url.QueryEscape,             *)
(* url.QueryUnescape and hex.EncodeToString are computed, not assumed.     *)
(* Names that are only compared (cookie names, domains, provider names)    *)
(* are TLA+ strings.                                                       *)
(***************************************************************************)
EXTENDS Integers, Sequences, FiniteSets, TLC

\* ------------------------------------------------------------------ bounds
\* Number of Managers that NewManager may construct in one run.
MaxManagers == 1
\* Number of sessions the stateful provider tracks at once.
MaxSessions == 2
\* Last value of the wall clock (seconds).
MaxTime == 1
\* Number of goroutines that use one Store at the same time.
MaxCallers == 2

\* Go's nil: a nil pointer or interface value, and the nil error.
NULL == <<>>
NoErr == "nil"

\* ------------------------------------------------------ byte-string helpers
\* Go string literals used by the model, as byte codes.
StrA1 == <<97, 49>>               \* "a1"
Str2B == <<50, 98>>               \* "2b"
StrEscA1 == <<37, 54, 49, 49>>    \* "%611"  (unescapes to "a1")
StrBadEsc == <<37, 122, 122>>     \* "%zz"   (no valid unescape)

\* net/url ishex
ishex(c) ==
    \/ (c >= 48 /\ c <= 57)
    \/ (c >= 97 /\ c <= 102)
    \/ (c >= 65 /\ c <= 70)

\* net/url unhex
unhex(c) ==
    IF c >= 48 /\ c <= 57 THEN c - 48
    ELSE IF c >= 97 /\ c <= 102 THEN c - 97 + 10
    ELSE IF c >= 65 /\ c <= 70 THEN c - 65 + 10
    ELSE 0

\* First pass of net/url unescape: every '%' is followed by two hex digits.
RECURSIVE EscapeOK(_)
EscapeOK(s) ==
    IF s = <<>> THEN TRUE
    ELSE IF Head(s) = 37
         THEN /\ Len(s) >= 3
              /\ ishex(s[2])
              /\ ishex(s[3])
              /\ EscapeOK(SubSeq(s, 4, Len(s)))
         ELSE EscapeOK(Tail(s))

\* Second pass of net/url unescape in query-component mode.
RECURSIVE UnescapeBytes(_)
UnescapeBytes(s) ==
    IF s = <<>> THEN <<>>
    ELSE IF Head(s) = 37
         THEN <<unhex(s[2]) * 16 + unhex(s[3])>> \o UnescapeBytes(SubSeq(s, 4, Len(s)))
         ELSE IF Head(s) = 43
              THEN <<32>> \o UnescapeBytes(Tail(s))
              ELSE <<Head(s)>> \o UnescapeBytes(Tail(s))

\* url.QueryUnescape: ("", EscapeError) on a malformed escape.
QueryUnescape(s) ==
    IF EscapeOK(s)
    THEN [val |-> UnescapeBytes(s), err |-> NoErr]
    ELSE [val |-> <<>>, err |-> "EscapeError"]

\* net/url shouldEscape in query-component mode.
shouldEscape(c) ==
    ~ \/ (c >= 97 /\ c <= 122)
      \/ (c >= 65 /\ c <= 90)
      \/ (c >= 48 /\ c <= 57)
      \/ c \in {45, 95, 46, 126}

\* "0123456789ABCDEF"[n]
upperhex(n) == IF n < 10 THEN 48 + n ELSE 65 + n - 10

\* url.QueryEscape
RECURSIVE QueryEscape(_)
QueryEscape(s) ==
    IF s = <<>> THEN <<>>
    ELSE LET c == Head(s)
         IN  (IF c = 32 THEN <<43>>
              ELSE IF shouldEscape(c)
                   THEN <<37, upperhex(c \div 16), upperhex(c % 16)>>
                   ELSE <<c>>) \o QueryEscape(Tail(s))

\* hextable with the upper-case digits.
hextable_Upper(n) == IF n < 10 THEN 48 + n ELSE 65 + n - 10

\* "0123456789abcdef"[n]
hextable(n) == IF n < 10 THEN 48 + n ELSE 97 + n - 10

\* hex.EncodeToString
RECURSIVE EncodeToString(_)
EncodeToString(b) ==
    IF b = <<>> THEN <<>>
    ELSE <<hextable(Head(b) \div 16), hextable(Head(b) % 16)>> \o EncodeToString(Tail(b))

\* Byte values the random source hands out (0xa1, 0x2b).
ByteVals == {161, 43}

\* crypto/rand.Read filling a buffer of n bytes.
RandBytes(n) == {[i \in 1..n |-> v] : v \in ByteVals}

\* The empty map[interface{}]interface{}.
EmptyMap == <<>>

\* Session keys and values an application stores, as byte codes ("k", "v").
Keys == {107}
Vals == {118}

\* --------------------------------------------------------------- JSON input
\* A JSON text is modelled by whether it parses and, if so, the fields it
\* carries.  json.Unmarshal checks the whole text before storing anything,
\* so an invalid text leaves the target untouched.
JSON(fields) == [valid |-> TRUE, fields |-> fields]
BadJSON == [valid |-> FALSE, fields |-> EmptyMap]

\* json.Unmarshal into a struct whose current field values are `target`:
\* fields present in the text overwrite, the others keep their value.
Unmarshal(doc, target) ==
    [f \in DOMAIN target |-> IF f \in DOMAIN doc.fields THEN doc.fields[f] ELSE target[f]]

\* 16-byte block key "2222222222222222" and hash key "h".
Key16 == [i \in 1..16 |-> 50]
KeyH == <<104>>
NameN == <<110>>

\* providerConfig strings.
PCNone == BadJSON                                  \* "" is not JSON
PCKeys == JSON([securityKey |-> KeyH, blockKey |-> Key16,
                securityName |-> NameN, cookieName |-> "SID"])

\* Manager config strings.
CfgShort == JSON([cookieName |-> "SID", gcLifetime |-> 2, maxLifetime |-> 1,
                  secure |-> TRUE, cookieLifetime |-> 1, domain |-> "example.com",
                  sessionIDLength |-> 1, providerConfig |-> PCKeys])
CfgNoSetCookie == JSON([cookieName |-> "SID", enableSetCookie |-> FALSE,
                        gcLifetime |-> 2, sessionIDLength |-> 1])

\* Calls of NewManager: provider name and config string.
ManagerInputs ==
    {<<"cookie", CfgShort>>, <<"cookie", CfgNoSetCookie>>,
     <<"memory", CfgShort>>, <<"memory", CfgNoSetCookie>>, <<"memory", BadJSON>>,
     <<"redis", CfgShort>>}

\* Further config strings: provider config without keys, with a block key
\* of a size AES rejects; Manager config without sessionIDLength, with
\* sessionIDLength 0, without any lifetime.
PCNoKeys == JSON([cookieName |-> "SID"])
PCBadBlockKey == JSON([securityKey |-> KeyH, blockKey |-> KeyH, securityName |-> NameN])
CfgNoKeys == JSON([cookieName |-> "SID", gcLifetime |-> 2, providerConfig |-> PCNoKeys])
CfgBadBlockKey == JSON([cookieName |-> "SID", gcLifetime |-> 2, sessionIDLength |-> 1,
                        providerConfig |-> PCBadBlockKey])
CfgZeroLife == JSON([cookieName |-> "SID", sessionIDLength |-> 2, providerConfig |-> PCKeys])
CfgZeroLen == JSON([cookieName |-> "SID", gcLifetime |-> 1, sessionIDLength |-> 0])

\* Calls of NewManager over the wider range of configurations.
WideInputs ==
    {<<"cookie", CfgShort>>, <<"cookie", CfgNoKeys>>, <<"cookie", CfgBadBlockKey>>,
     <<"cookie", CfgNoSetCookie>>, <<"cookie", CfgZeroLife>>, <<"memory", CfgZeroLen>>}

\* ------------------------------------------------------------------- state
VARIABLES
    provides,     \* the registry: provider name -> provider
    cookiepder,   \* the package's one CookieProvider: maxLifetime, config, block
    mempder,      \* the stateful provider: maxLifetime, sessions (sid -> values)
    backendDown,  \* whether the stateful provider's backing store fails its I/O
    managers,     \* the Managers constructed so far, in order
    now,          \* wall clock, seconds
    op,           \* the last operation and its inputs
    ret,          \* what the last operation returned
    resp,         \* cookies the last operation attached to its response
    calls,        \* Provider calls the last operation made, in order
    pending,      \* invocations of Manager.GC to come: Manager and delay
    cstore        \* a CookieSessionStore and the goroutines calling its methods

vars == <<provides, cookiepder, mempder, backendDown, managers, now, op, ret, resp, calls,
          pending, cstore>>

\* Names under which Register is called.
ProviderNames == {"cookie", "memory"}

\* --------------------------------------------------------- cookie codec
\* The payload is a sealed box: it names the keys it was made under, and
\* decoding succeeds only under the same keys.  Layout, each field behind
\* its length: timestamp, block key, hash key, field name, then the
\* serialized map as key/value byte pairs.
RECURSIVE SerializeMap(_)
SerializeMap(m) ==
    IF DOMAIN m = {} THEN <<>>
    ELSE LET k == CHOOSE x \in DOMAIN m : \A y \in DOMAIN m : x <= y
         IN  <<k, m[k]>> \o SerializeMap([y \in DOMAIN m \ {k} |-> m[y]])

RECURSIVE DeserializeMap(_)
DeserializeMap(b) ==
    IF Len(b) < 2 THEN EmptyMap
    ELSE LET rest == DeserializeMap(SubSeq(b, 3, Len(b)))
         IN  [k \in DOMAIN rest \cup {b[1]} |-> IF k = b[1] THEN b[2] ELSE rest[k]]

\* Whether a length-prefixed field starts at position i of s.
HasField(s, i) == i <= Len(s) /\ i + s[i] <= Len(s)
FieldAt(s, i) == SubSeq(s, i + 1, i + s[i])

encodeCookie(block, hashKey, name, values, ts) ==
    IF block = NULL
    THEN [str |-> <<>>, err |-> "nil cipher"]
    ELSE [str |-> <<ts, Len(block.key)>> \o block.key \o <<Len(hashKey)>> \o hashKey
                  \o <<Len(name)>> \o name \o SerializeMap(values),
          err |-> NoErr]

decodeCookie(block, hashKey, name, value, gcmaxlifetime, clock) ==
    LET bad == [maps |-> NULL, err |-> "AuthenticationError"]
    IN  IF ~ (Len(value) >= 2 /\ HasField(value, 2)) THEN bad
        ELSE LET i2 == 3 + value[2]
             IN  IF ~ HasField(value, i2) THEN bad
                 ELSE LET i3 == i2 + 1 + value[i2]
                      IN  IF ~ HasField(value, i3) THEN bad
                          ELSE IF \/ block = NULL
                                  \/ FieldAt(value, 2) # block.key
                                  \/ FieldAt(value, i2) # hashKey
                                  \/ FieldAt(value, i3) # name
                               THEN bad
                               ELSE IF clock - value[1] > gcmaxlifetime
                                    THEN [maps |-> NULL, err |-> "ExpiredError"]
                                    ELSE [maps |-> DeserializeMap(
                                                     SubSeq(value, i3 + 1 + value[i3], Len(value))),
                                          err |-> NoErr]

\* generateRandomKey(n): n bytes from the random source.
generateRandomKey(n) == RandBytes(n)

\* ------------------------------------------------------- cookie provider
\* &CookieProvider{}
CookieProviderZero == [maxLifetime |-> 0, config |-> NULL, block |-> NULL]

\* &cookieConfig{}
cookieConfigZero ==
    [securityKey |-> <<>>, blockKey |-> <<>>, securityName |-> <<>>,
     cookieName |-> "", secure |-> FALSE, maxAge |-> 0]

\* aes.NewCipher: a block for a 16, 24 or 32 byte key, else KeySizeError.
NewCipher(key) ==
    IF Len(key) \in {16, 24, 32}
    THEN [block |-> [key |-> key], err |-> NoErr]
    ELSE [block |-> NULL, err |-> "KeySizeError"]

\* CookieProvider.SessionInit: the set of outcomes [pder, err], one per
\* choice of the random keys.
CookieSessionInit(pder, maxLifetime, config) ==
    IF ~ config.valid
    THEN {[pder |-> [pder EXCEPT !.config = cookieConfigZero], err |-> "SyntaxError"]}
    ELSE LET c1 == Unmarshal(config, cookieConfigZero)
         IN  { LET c3 == [c1 EXCEPT !.blockKey = bk, !.securityName = sn]
                   nc == NewCipher(c3.blockKey)
               IN  IF nc.err # NoErr
                   THEN [pder |-> [pder EXCEPT !.config = c3, !.block = nc.block],
                         err |-> nc.err]
                   ELSE [pder |-> [maxLifetime |-> maxLifetime, config |-> c3,
                                   block |-> nc.block],
                         err |-> NoErr]
               : bk \in (IF c1.blockKey = <<>> THEN generateRandomKey(16) ELSE {c1.blockKey}),
                 sn \in (IF c1.securityName = <<>> THEN generateRandomKey(20)
                         ELSE {c1.securityName}) }

\* SessionRead that hands the decoding error to its caller.
CookieSessionRead_Propagate(pder, sid, clock) ==
    LET d == decodeCookie(pder.block, pder.config.securityKey, pder.config.securityName,
                          sid, pder.maxLifetime, clock)
    IN  IF d.err # NoErr THEN [store |-> NULL, err |-> d.err]
        ELSE [store |-> [sid |-> sid, values |-> d.maps], err |-> NoErr]

\* CookieProvider.SessionRead
CookieSessionRead(pder, sid, clock) ==
    LET d == decodeCookie(pder.block, pder.config.securityKey, pder.config.securityName,
                          sid, pder.maxLifetime, clock)
        maps == IF d.maps = NULL THEN EmptyMap ELSE d.maps
    IN  [store |-> [sid |-> sid, values |-> maps], err |-> NoErr]

\* SessionExist of a provider that knows no session.
CookieSessionExist_Never(pder, sid) == FALSE

\* SessionExist that knows one id only.
CookieSessionExist_OnlyA1(pder, sid) == sid = StrA1

\* CookieProvider.SessionExist
CookieSessionExist(pder, sid) == TRUE

\* CookieProvider.SessionRegenerate
CookieSessionRegenerate(pder, oldsid, sid) == [store |-> NULL, err |-> NoErr]

\* CookieProvider.SessionDestroy
CookieSessionDestroy(pder, sid) == NoErr

\* CookieProvider.SessionGC: returns at once, the provider as it was.
CookieSessionGC(pder) == pder

\* CookieProvider.SessionCount
CookieSessionCount(pder) == 0

\* ------------------------------------------------------ stateful provider
\* A provider that keeps a server-side record per session id (memory, file,
\* remote cache).  Its operations surface the backing store's I/O errors.
Put(f, k, v) == [x \in DOMAIN f \cup {k} |-> IF x = k THEN v ELSE f[x]]
Remove(f, k) == [x \in DOMAIN f \ {k} |-> f[x]]

MemProviderZero == [maxLifetime |-> 0, sessions |-> EmptyMap, atime |-> EmptyMap]

MemInit(pder, maxLifetime, config) ==
    {[pder |-> [pder EXCEPT !.maxLifetime = maxLifetime], err |-> NoErr]}

MemExist(pder, sid) == sid \in DOMAIN pder.sessions

\* Read records the access: the session's last-access time becomes `now`.
MemRead(pder, sid, down) ==
    IF down THEN [store |-> NULL, err |-> "IOError", mem |-> pder]
    ELSE IF sid \in DOMAIN pder.sessions
         THEN [store |-> [sid |-> sid, values |-> pder.sessions[sid]],
               err |-> NoErr,
               mem |-> [pder EXCEPT !.atime = Put(pder.atime, sid, now)]]
         ELSE [store |-> [sid |-> sid, values |-> EmptyMap], err |-> NoErr,
               mem |-> [pder EXCEPT !.sessions = Put(pder.sessions, sid, EmptyMap),
                                    !.atime = Put(pder.atime, sid, now)]]

MemRegenerate(pder, oldsid, sid, down) ==
    IF down THEN [store |-> NULL, err |-> "IOError", mem |-> pder]
    ELSE IF oldsid \in DOMAIN pder.sessions
         THEN LET data == pder.sessions[oldsid]
              IN  [store |-> [sid |-> sid, values |-> data], err |-> NoErr,
                   mem |-> [pder EXCEPT
                              !.sessions = Put(Remove(pder.sessions, oldsid), sid, data),
                              !.atime = Put(Remove(pder.atime, oldsid), sid, now)]]
         ELSE MemRead(pder, sid, down)

MemDestroy(pder, sid, down) ==
    IF down THEN [err |-> "IOError", mem |-> pder]
    ELSE [err |-> NoErr, mem |-> [pder EXCEPT !.sessions = Remove(pder.sessions, sid),
                                              !.atime = Remove(pder.atime, sid)]]

\* A session is expired when its last access lies more than maxLifetime
\* seconds before `clock`.
MemExpired(pder, sid, clock) == clock - pder.atime[sid] > pder.maxLifetime

\* GC evicts every expired session and keeps the others as they are.
MemGC(pder, clock) ==
    LET keep == {sid \in DOMAIN pder.sessions : ~ MemExpired(pder, sid, clock)}
    IN  [pder EXCEPT !.sessions = [sid \in keep |-> pder.sessions[sid]],
                     !.atime = [sid \in keep |-> pder.atime[sid]]]

MemCount(pder) == Cardinality(DOMAIN pder.sessions)

\* ------------------------------------------ Provider interface dispatch
\* Every result names the stateful provider's state after the call.
ProviderInit(p, maxLifetime, config) ==
    IF p = "cookiepder"
    THEN {[cookie |-> o.pder, mem |-> mempder, err |-> o.err]
            : o \in CookieSessionInit(cookiepder, maxLifetime, config)}
    ELSE {[cookie |-> cookiepder, mem |-> o.pder, err |-> o.err]
            : o \in MemInit(mempder, maxLifetime, config)}

ProviderExist(p, sid) ==
    IF p = "cookiepder" THEN CookieSessionExist(cookiepder, sid)
    ELSE MemExist(mempder, sid)

ProviderRead(p, mem, sid) ==
    IF p = "cookiepder"
    THEN LET r == CookieSessionRead(cookiepder, sid, now)
         IN  [store |-> r.store, err |-> r.err, mem |-> mem]
    ELSE MemRead(mem, sid, backendDown)

ProviderRegenerate(p, mem, oldsid, sid) ==
    IF p = "cookiepder"
    THEN LET r == CookieSessionRegenerate(cookiepder, oldsid, sid)
         IN  [store |-> r.store, err |-> r.err, mem |-> mem]
    ELSE MemRegenerate(mem, oldsid, sid, backendDown)

\* ProviderDestroy that reports an id it does not hold.
ProviderDestroy_ErrIfAbsent(p, mem, sid) ==
    IF p = "cookiepder"
    THEN [err |-> CookieSessionDestroy(cookiepder, sid), mem |-> mem]
    ELSE IF sid \notin DOMAIN mem.sessions
    THEN [err |-> "session: not found", mem |-> mem]
    ELSE MemDestroy(mem, sid, backendDown)

ProviderDestroy(p, mem, sid) ==
    IF p = "cookiepder"
    THEN [err |-> CookieSessionDestroy(cookiepder, sid), mem |-> mem]
    ELSE MemDestroy(mem, sid, backendDown)

\* A sweep that evicts nothing.
ProviderGC_KeepAll(p, mem) == mem

\* The stateful provider's state after the call.
ProviderGC(p, mem) ==
    IF p = "cookiepder" THEN mem ELSE MemGC(mem, now)

ProviderCount(p) ==
    IF p = "cookiepder" THEN CookieSessionCount(cookiepder) ELSE MemCount(mempder)

\* A call as the log `calls` records it: the function, the session ids it
\* is about (for sessionID, the id it returned) and the error it returned.
Call(fn, ids, err) == [fn |-> fn, ids |-> ids, err |-> err]

\* ----------------------------------------------------- requests, cookies
\* time.Second, in nanoseconds.
Second == 1000000000

\* A request as the Manager reads it: the cookie under the configured name
\* (if any) with its attributes, the form value of that name, the scheme.
Req(hasCookie, value, secure, domain, form, scheme) ==
    [hasCookie |-> hasCookie, value |-> value, secure |-> secure, domain |-> domain,
     form |-> form, scheme |-> scheme]

Requests ==
    {Req(FALSE, <<>>, FALSE, "", <<>>, "https"),
     Req(FALSE, <<>>, FALSE, "", StrA1, "http"),
     Req(TRUE, <<>>, FALSE, "", Str2B, "http"),
     Req(TRUE, StrA1, FALSE, "", <<>>, "https"),
     Req(TRUE, StrA1, TRUE, "old.example", Str2B, "http"),
     Req(TRUE, StrEscA1, FALSE, "", <<>>, "http"),
     Req(TRUE, StrBadEsc, FALSE, "", <<>>, "http")}

\* ctx.Cookie(name): the cookie, or an error when the request has none.
ctxCookie(req) ==
    IF req.hasCookie THEN [err |-> NoErr, value |-> req.value]
    ELSE [err |-> "ErrCookieNotFound", value |-> <<>>]

\* A time.Time as seconds and nanoseconds; `set` is false for the zero
\* time of a cookie that was given no expiry.
NoExpire == [set |-> FALSE, sec |-> 0, ns |-> 0]
TimeAt(sec, ns) == [set |-> TRUE, sec |-> sec, ns |-> ns]

\* new(macross.Cookie)
NewCookie ==
    [name |-> "", value |-> <<>>, path |-> "", httpOnly |-> FALSE, secure |-> FALSE,
     domain |-> "", expire |-> NoExpire]

\* ----------------------------------------------------------------- Manager
\* new(managerConfig)
managerConfigZero ==
    [cookieName |-> "", enableSetCookie |-> FALSE, gcLifetime |-> 0, maxLifetime |-> 0,
     secure |-> FALSE, cookieLifetime |-> 0, providerConfig |-> PCNone, domain |-> "",
     sessionIDLength |-> 0]

\* Manager.sessionID: the possible outcomes of one call.
sessionID(mgr) ==
    {[sid |-> EncodeToString(b), err |-> NoErr] : b \in RandBytes(mgr.config.sessionIDLength)}
    \cup {[sid |-> <<>>, err |-> "Could not successfully read from the system CSPRNG."]}

\* Manager.isSecure
isSecure(mgr, req) ==
    IF ~ mgr.config.secure THEN FALSE
    ELSE IF req.scheme # "" THEN req.scheme = "https"
    ELSE FALSE

\* getSid that prefers the query/form parameter to the cookie.
getSid_FormFirst(mgr, req) ==
    IF req.form # <<>> THEN [val |-> req.form, err |-> NoErr]
    ELSE IF ctxCookie(req).err # NoErr THEN [val |-> <<>>, err |-> NoErr]
    ELSE QueryUnescape(req.value)

\* Manager.getSid
getSid(mgr, req) ==
    LET c == ctxCookie(req)
    IN  IF c.err # NoErr \/ c.value = <<>>
        THEN [val |-> req.form, err |-> NoErr]
        ELSE QueryUnescape(c.value)

\* Outcome of a Manager operation: what it returns, the cookies it attached,
\* the calls it made, and the stateful provider's state after it.
Outcome(store, err, cookies, log, mem) ==
    [store |-> store, err |-> err, resp |-> cookies, calls |-> log, mem |-> mem]

\* time.Now().Add(time.Duration(CookieLifetime) * time.Second)
ExpireSeconds(mgr) == TimeAt(now + mgr.config.cookieLifetime, 0)

\* time.Now().Add(time.Duration(CookieLifetime))
ExpireNanos(mgr) ==
    TimeAt(now + (mgr.config.cookieLifetime \div Second), mgr.config.cookieLifetime % Second)

\* The cookie that announces a freshly minted id.
FreshCookie(mgr, req, sid, expire) ==
    [NewCookie EXCEPT
       !.name = mgr.config.cookieName,
       !.value = QueryEscape(sid),
       !.path = "/",
       !.httpOnly = TRUE,
       !.secure = isSecure(mgr, req),
       !.domain = mgr.config.domain,
       !.expire = IF mgr.config.cookieLifetime > 0 THEN expire ELSE NoExpire]

\* SetCookie that never attaches the cookie.
SetCookie_Never(mgr, cookie) == <<>>

\* if manager.config.EnableSetCookie { ctx.SetCookie(cookie) }
SetCookie(mgr, cookie) == IF mgr.config.enableSetCookie THEN <<cookie>> ELSE <<>>

\* The expiry left at the start of the clock.
ExpireNow_Zero == TimeAt(0, 0)

\* time.Now(), the expiry of the cookie that clears the client.
ExpireNow == TimeAt(now, 0)

\* Start, when the request names an existing session: read it.
Resume(mgr, sid, probe) ==
    LET r == ProviderRead(mgr.provider, mempder, sid)
    IN  Outcome(r.store, r.err, <<>>, probe \o <<Call("Read", <<sid>>, r.err)>>, r.mem)

\* Mint that adopts the id the request proposed instead of the generated one.
Mint_Adopt(mgr, req, gen, expire, probe) ==
    LET asked == getSid(mgr, req).val
        sid == IF asked # <<>> THEN asked ELSE gen.sid
        r == ProviderRead(mgr.provider, mempder, sid)
    IN  IF gen.err # NoErr
        THEN Outcome(NULL, gen.err, <<>>, probe \o <<Call("sessionID", <<gen.sid>>, gen.err)>>,
                     mempder)
        ELSE Outcome(r.store, r.err, SetCookie(mgr, FreshCookie(mgr, req, sid, expire)),
                     probe \o <<Call("sessionID", <<gen.sid>>, NoErr),
                                Call("Read", <<sid>>, r.err)>>,
                     r.mem)

\* Mint that carries on with the empty id when generation failed.
Mint_IgnoreGenErr(mgr, req, gen, expire, probe) ==
    LET r == ProviderRead(mgr.provider, mempder, gen.sid)
    IN  Outcome(r.store, r.err, SetCookie(mgr, FreshCookie(mgr, req, gen.sid, expire)),
                probe \o <<Call("sessionID", <<gen.sid>>, gen.err),
                           Call("Read", <<gen.sid>>, r.err)>>,
                r.mem)

\* Start, otherwise: generate a new session.  `gen` is the outcome of
\* sessionID, `probe` the Exist call made before, if any.
Mint(mgr, req, gen, expire, probe) ==
    IF gen.err # NoErr
    THEN Outcome(NULL, gen.err, <<>>, probe \o <<Call("sessionID", <<gen.sid>>, gen.err)>>,
                 mempder)
    ELSE LET r == ProviderRead(mgr.provider, mempder, gen.sid)
         IN  Outcome(r.store, r.err,
                     SetCookie(mgr, FreshCookie(mgr, req, gen.sid, expire)),
                     probe \o <<Call("sessionID", <<gen.sid>>, NoErr),
                                Call("Read", <<gen.sid>>, r.err)>>,
                     r.mem)

\* StartBody that resumes whatever id the request names, without asking
\* the provider whether it exists.
StartBody_Trusting(mgr, req, gen, expire) ==
    LET g == getSid(mgr, req)
    IN  IF g.err # NoErr
        THEN Outcome(NULL, g.err, <<>>, <<>>, mempder)
        ELSE IF g.val # <<>>
        THEN Resume(mgr, g.val, <<>>)
        ELSE Mint(mgr, req, gen, expire, <<>>)

\* Body shared by Manager.Start and Manager.SessionStart, which differ in
\* the expiry they compute.
StartBody(mgr, req, gen, expire) ==
    LET g == getSid(mgr, req)
        probe == IF g.val # <<>> THEN <<Call("Exist", <<g.val>>, NoErr)>> ELSE <<>>
    IN  IF g.err # NoErr
        THEN Outcome(NULL, g.err, <<>>, <<>>, mempder)
        ELSE IF g.val # <<>> /\ ProviderExist(mgr.provider, g.val)
        THEN Resume(mgr, g.val, probe)
        ELSE Mint(mgr, req, gen, expire, probe)

\* Manager.Start
Start(mgr, req, gen) == StartBody(mgr, req, gen, ExpireNanos(mgr))

\* Manager.SessionStart
SessionStart(mgr, req, gen) == StartBody(mgr, req, gen, ExpireSeconds(mgr))

\* Body shared by Manager.RegenerateId and Manager.SessionRegenerateID.
\* The error it reports is the one ctx.Cookie left in `err`.
RegenerateBody(mgr, req, gen, expire) ==
    LET p == mgr.provider
        c == ctxCookie(req)
        minted == Call("sessionID", <<gen.sid>>, gen.err)
    IN  IF gen.err # NoErr
        THEN Outcome(NULL, gen.err, <<>>, <<minted>>, mempder)
        ELSE IF c.err # NoErr \/ c.value = <<>>
        THEN LET r == ProviderRead(p, mempder, gen.sid)
             IN  Outcome(r.store, c.err,
                         SetCookie(mgr, FreshCookie(mgr, req, gen.sid, expire)),
                         <<minted, Call("Read", <<gen.sid>>, r.err)>>, r.mem)
        ELSE LET oldsid == QueryUnescape(c.value).val
                 r == ProviderRegenerate(p, mempder, oldsid, gen.sid)
                 cookie == [NewCookie EXCEPT
                              !.name = mgr.config.cookieName,
                              !.value = QueryEscape(gen.sid),
                              !.path = "/",
                              !.httpOnly = TRUE,
                              !.secure = req.secure,
                              !.domain = req.domain,
                              !.expire = IF mgr.config.cookieLifetime > 0
                                         THEN expire ELSE NoExpire]
             IN  Outcome(r.store, c.err, SetCookie(mgr, cookie),
                         <<minted, Call("Regenerate", <<oldsid, gen.sid>>, r.err)>>, r.mem)

\* Manager.RegenerateId
RegenerateId(mgr, req, gen) == RegenerateBody(mgr, req, gen, ExpireNanos(mgr))

\* Manager.SessionRegenerateID: returns the Store alone.
SessionRegenerateID(mgr, req, gen) ==
    [RegenerateBody(mgr, req, gen, ExpireSeconds(mgr)) EXCEPT !.err = NoErr]

\* Manager.Destory
Destory(mgr, req) ==
    LET c == ctxCookie(req)
        sid == IF c.err = NoErr THEN c.value ELSE <<>>
    IN  IF Len(sid) = 0
        THEN Outcome(NULL, NoErr, <<>>, <<>>, mempder)
        ELSE LET r == ProviderDestroy(mgr.provider, mempder, sid)
                 cookie == [NewCookie EXCEPT
                              !.name = mgr.config.cookieName,
                              !.path = "/",
                              !.httpOnly = TRUE,
                              !.expire = ExpireNow]
             IN  IF r.err # NoErr
                 THEN Outcome(NULL, r.err, <<>>, <<Call("Destroy", <<sid>>, r.err)>>, r.mem)
                 ELSE Outcome(NULL, NoErr, <<cookie>>, <<Call("Destroy", <<sid>>, r.err)>>,
                              r.mem)

\* Manager.SessionDestroy: returns nothing.
SessionDestroy(mgr, req) ==
    LET c == ctxCookie(req)
    IN  IF c.err # NoErr \/ c.value = <<>>
        THEN Outcome(NULL, NoErr, <<>>, <<>>, mempder)
        ELSE LET sid == QueryUnescape(c.value).val
                 r == ProviderDestroy(mgr.provider, mempder, sid)
                 cookie == [NewCookie EXCEPT
                              !.name = mgr.config.cookieName,
                              !.path = "/",
                              !.httpOnly = TRUE,
                              !.expire = ExpireNow,
                              !.domain = mgr.config.domain]
             IN  Outcome(NULL, NoErr, SetCookie(mgr, cookie),
                         <<Call("Destroy", <<sid>>, r.err)>>, r.mem)

\* ----------------------------------------------------------------- actions
\* The nil Provider interface value handed to Register.
NilProvider == "nil"

NoReq == Req(FALSE, <<>>, FALSE, "", <<>>, "")
Op(name, m, req, args) == [name |-> name, m |-> m, req |-> req, args |-> args]
Ret(store, err, mgr, panic) == [store |-> store, err |-> err, mgr |-> mgr, panic |-> panic]

\* Session ids handed to the Provider directly.
Sids == {StrA1, Str2B}

\* No operation is in progress: the last one has returned to its caller.
Idle == op.name = "idle"

\* Goroutines that share the Store.
Callers == 1..MaxCallers

\* A goroutine that is in none of the Store's methods.
CallerIdle ==
    [kind |-> "", pc |-> "idle", key |-> 0, val |-> 0, saw |-> EmptyMap, raced |-> FALSE,
     fatal |-> FALSE, cookies |-> <<>>]

\* No Store yet.  `w` is the goroutine that holds the lock for writing (0:
\* none), `r` the goroutines that hold it for reading.
StoreNone ==
    [open |-> FALSE, sid |-> <<>>, values |-> EmptyMap, w |-> 0, r |-> {},
     callers |-> [p \in Callers |-> CallerIdle]]

Init ==
    /\ cstore = StoreNone
    /\ provides = [n \in {"cookie"} |-> "cookiepder"]
    /\ cookiepder = CookieProviderZero
    /\ mempder = MemProviderZero
    /\ backendDown = FALSE
    /\ managers = <<>>
    /\ now = 0
    /\ op = Op("idle", 0, NoReq, <<>>)
    /\ ret = Ret(NULL, NoErr, NULL, "")
    /\ resp = <<>>
    /\ calls = <<>>
    /\ pending = {}

\* RegisterResult without the duplicate check: a later registration replaces
\* the earlier one.
RegisterResult_Overwrite(reg, name, provide) ==
    IF provide = NilProvider
    THEN [provides |-> reg, panic |-> "session: Register provide is nil"]
    ELSE [provides |-> Put(reg, name, provide), panic |-> ""]

\* Register: the registry after the call and the panic it raised, if any.
RegisterResult(reg, name, provide) ==
    IF provide = NilProvider
    THEN [provides |-> reg, panic |-> "session: Register provide is nil"]
    ELSE IF name \in DOMAIN reg
    THEN [provides |-> reg, panic |-> "session: Register called twice for provider"]
    ELSE [provides |-> Put(reg, name, provide), panic |-> ""]

Register ==
    /\ Idle
    /\ \E name \in ProviderNames, provide \in {"mempder", NilProvider} :
         LET r == RegisterResult(provides, name, provide)
         IN  /\ provides' = r.provides
             /\ op' = Op("Register", 0, NoReq, <<name, provide>>)
             /\ ret' = Ret(NULL, NoErr, NULL, r.panic)
             /\ resp' = <<>>
             /\ calls' = <<>>
             /\ UNCHANGED <<cookiepder, mempder, backendDown, managers, now, pending, cstore>>

\* NewManagerResult that hands out the Manager although Init failed.
NewManagerResult_HalfConfigured(reg, provideName, config) ==
    IF provideName \notin DOMAIN reg
    THEN {[mgr |-> NULL, err |-> "session: unknown provide", cookie |-> cookiepder,
           mem |-> mempder, calls |-> <<>>]}
    ELSE IF ~ config.valid
    THEN {[mgr |-> NULL, err |-> "SyntaxError", cookie |-> cookiepder,
           mem |-> mempder, calls |-> <<>>]}
    ELSE LET cf1 == Unmarshal(config, [managerConfigZero EXCEPT !.enableSetCookie = TRUE])
         IN  { [mgr |-> [provider |-> reg[provideName], config |-> cf1], err |-> i.err,
                cookie |-> i.cookie, mem |-> i.mem, calls |-> <<Call("Init", <<>>, i.err)>>]
               : i \in ProviderInit(reg[provideName], cf1.maxLifetime, cf1.providerConfig) }

\* NewManager: the set of outcomes [mgr, err, cookie, mem, calls].
NewManagerResult(reg, provideName, config) ==
    IF provideName \notin DOMAIN reg
    THEN {[mgr |-> NULL, err |-> "session: unknown provide", cookie |-> cookiepder,
           mem |-> mempder, calls |-> <<>>]}
    ELSE LET provider == reg[provideName]
             cf0 == [managerConfigZero EXCEPT !.enableSetCookie = TRUE]
         IN  IF ~ config.valid
             THEN {[mgr |-> NULL, err |-> "SyntaxError", cookie |-> cookiepder,
                    mem |-> mempder, calls |-> <<>>]}
             ELSE LET cf1 == Unmarshal(config, cf0)
                      cf2 == IF cf1.maxLifetime = 0
                             THEN [cf1 EXCEPT !.maxLifetime = cf1.gcLifetime] ELSE cf1
                      cf3 == IF cf2.sessionIDLength = 0
                             THEN [cf2 EXCEPT !.sessionIDLength = 16] ELSE cf2
                  IN  { IF i.err # NoErr
                        THEN [mgr |-> NULL, err |-> i.err, cookie |-> i.cookie,
                              mem |-> i.mem, calls |-> <<Call("Init", <<>>, i.err)>>]
                        ELSE [mgr |-> [provider |-> provider, config |-> cf3],
                              err |-> NoErr, cookie |-> i.cookie, mem |-> i.mem,
                              calls |-> <<Call("Init", <<>>, NoErr)>>]
                        : i \in ProviderInit(provider, cf2.maxLifetime, cf2.providerConfig) }

NewManager ==
    /\ Idle
    /\ Len(managers) < MaxManagers
    /\ \E in \in ManagerInputs :
         LET provideName == in[1]
             config == in[2]
         IN
         \E r \in NewManagerResult(provides, provideName, config) :
            /\ managers' = IF r.mgr = NULL THEN managers ELSE Append(managers, r.mgr)
            /\ cookiepder' = r.cookie
            /\ mempder' = r.mem
            /\ op' = Op("NewManager", 0, NoReq, <<provideName, config>>)
            /\ ret' = Ret(NULL, r.err, r.mgr, "")
            /\ resp' = <<>>
            /\ calls' = r.calls
            /\ UNCHANGED <<provides, backendDown, now, pending, cstore>>

\* A Manager operation on a request: `o` is its outcome.
Serve(name, m, req, o) ==
    /\ Idle
    /\ Cardinality(DOMAIN o.mem.sessions) <= MaxSessions
    /\ mempder' = o.mem
    /\ op' = Op(name, m, req, <<>>)
    /\ ret' = Ret(o.store, o.err, NULL, "")
    /\ resp' = o.resp
    /\ calls' = o.calls
    /\ UNCHANGED <<provides, cookiepder, backendDown, managers, now, pending, cstore>>

ManagerStart ==
    \E m \in 1..Len(managers), req \in Requests :
        \E gen \in sessionID(managers[m]) :
            Serve("Start", m, req, Start(managers[m], req, gen))

ManagerSessionStart ==
    \E m \in 1..Len(managers), req \in Requests :
        \E gen \in sessionID(managers[m]) :
            Serve("SessionStart", m, req, SessionStart(managers[m], req, gen))

ManagerRegenerateId ==
    \E m \in 1..Len(managers), req \in Requests :
        \E gen \in sessionID(managers[m]) :
            Serve("RegenerateId", m, req, RegenerateId(managers[m], req, gen))

ManagerSessionRegenerateID ==
    \E m \in 1..Len(managers), req \in Requests :
        \E gen \in sessionID(managers[m]) :
            Serve("SessionRegenerateID", m, req, SessionRegenerateID(managers[m], req, gen))

ManagerDestory ==
    \E m \in 1..Len(managers), req \in Requests :
        Serve("Destory", m, req, Destory(managers[m], req))

ManagerSessionDestroy ==
    \E m \in 1..Len(managers), req \in Requests :
        Serve("SessionDestroy", m, req, SessionDestroy(managers[m], req))

\* Provider.Regenerate called on the provider a Manager holds.
CallRegenerate ==
    \E m \in 1..Len(managers), oldsid \in Sids, sid \in Sids :
        LET p == managers[m].provider
            r == ProviderRegenerate(p, mempder, oldsid, sid)
        IN  /\ Idle
            /\ Cardinality(DOMAIN r.mem.sessions) <= MaxSessions
            /\ mempder' = r.mem
            /\ op' = Op("Provider.Regenerate", 0, NoReq, <<p, oldsid, sid>>)
            /\ ret' = Ret(r.store, r.err, NULL, "")
            /\ resp' = <<>>
            /\ calls' = <<Call("Regenerate", <<oldsid, sid>>, r.err)>>
            /\ UNCHANGED <<provides, cookiepder, backendDown, managers, now, pending, cstore>>

\* Provider.Destroy called on the provider a Manager holds.
CallDestroy ==
    \E m \in 1..Len(managers), sid \in Sids :
        LET p == managers[m].provider
            r == ProviderDestroy(p, mempder, sid)
        IN  /\ Idle
            /\ mempder' = r.mem
            /\ op' = Op("Provider.Destroy", 0, NoReq, <<p, sid>>)
            /\ ret' = Ret(NULL, r.err, NULL, "")
            /\ resp' = <<>>
            /\ calls' = <<Call("Destroy", <<sid>>, r.err)>>
            /\ UNCHANGED <<provides, cookiepder, backendDown, managers, now, pending, cstore>>

\* Provider.GC called on the provider a Manager holds.
CallGC ==
    \E m \in 1..Len(managers) :
        LET p == managers[m].provider
        IN  /\ Idle
            /\ mempder' = ProviderGC(p, mempder)
            /\ cookiepder' = IF p = "cookiepder" THEN CookieSessionGC(cookiepder)
                             ELSE cookiepder
            /\ op' = Op("Provider.GC", 0, NoReq, <<p>>)
            /\ ret' = Ret(NULL, NoErr, NULL, "")
            /\ resp' = <<>>
            /\ calls' = <<Call("GC", <<>>, NoErr)>>
            /\ UNCHANGED <<provides, backendDown, managers, now, pending, cstore>>

\* The application stores a value in the session `sid` of the stateful
\* provider and releases the Store.
StoreSet ==
    \E sid \in DOMAIN mempder.sessions, k \in Keys, v \in Vals :
        /\ Idle
        /\ ~ backendDown
        /\ mempder' = [mempder EXCEPT !.sessions[sid] = Put(@, k, v)]
        /\ op' = Op("Store.Set", 0, NoReq, <<sid, k, v>>)
        /\ ret' = Ret(NULL, NoErr, NULL, "")
        /\ resp' = <<>>
        /\ calls' = <<>>
        /\ UNCHANGED <<provides, cookiepder, backendDown, managers, now, pending, cstore>>

\* The backing store of the stateful provider starts or stops failing.
BackendFlip ==
    /\ Idle
    /\ backendDown' = ~ backendDown
    /\ UNCHANGED <<provides, cookiepder, mempder, managers, now, op, ret, resp, calls, pending,
                   cstore>>

\* A second passes.
Tick ==
    /\ Idle
    /\ now < MaxTime
    /\ now' = now + 1
    /\ UNCHANGED <<provides, cookiepder, mempder, backendDown, managers, op, ret, resp, calls,
                   pending, cstore>>

\* The operation returns: its caller has taken the result and the response.
Return ==
    /\ ~ Idle
    /\ op.name = "Sessioner" => op.args[1] = "returned"
    /\ ret.panic # "log.Fatalln"
    /\ op' = Op("idle", 0, NoReq, <<>>)
    /\ ret' = Ret(NULL, NoErr, NULL, "")
    /\ resp' = <<>>
    /\ calls' = <<>>
    /\ UNCHANGED <<provides, cookiepder, mempder, backendDown, managers, now, pending, cstore>>

Next ==
    \/ Register
    \/ NewManager
    \/ ManagerStart
    \/ ManagerSessionStart
    \/ ManagerRegenerateId
    \/ ManagerSessionRegenerateID
    \/ ManagerDestory
    \/ ManagerSessionDestroy
    \/ CallRegenerate
    \/ CallDestroy
    \/ CallGC
    \/ StoreSet
    \/ BackendFlip
    \/ Tick
    \/ Return

Spec == Init /\ [][Next]_vars

\* ------------------------------------------- the package, configured widely
\* A second specification: the same package constructed from the wider
\* range of configurations, with its functions called one at a time.
\* Number of Managers constructed in one run of it.
MaxConstructed == 2

NewManagerWide ==
    /\ Idle
    /\ Len(managers) < MaxConstructed
    /\ \E in \in WideInputs :
         \E r \in NewManagerResult(provides, in[1], in[2]) :
            /\ managers' = IF r.mgr = NULL THEN managers ELSE Append(managers, r.mgr)
            /\ cookiepder' = r.cookie
            /\ mempder' = r.mem
            /\ op' = Op("NewManager", 0, NoReq, <<in[1], in[2]>>)
            /\ ret' = Ret(NULL, r.err, r.mgr, "")
            /\ resp' = <<>>
            /\ calls' = r.calls
            /\ UNCHANGED <<provides, backendDown, now, pending, cstore>>

\* Manager.sessionID called once.
CallSessionID ==
    \E m \in 1..Len(managers) :
        \E gen \in sessionID(managers[m]) :
            /\ Idle
            /\ op' = Op("sessionID", m, NoReq, <<>>)
            /\ ret' = Ret(NULL, gen.err, NULL, "")
            /\ resp' = <<>>
            /\ calls' = <<Call("sessionID", <<gen.sid>>, gen.err)>>
            /\ UNCHANGED <<provides, cookiepder, mempder, backendDown, managers, now, pending, cstore>>

\* A map with one entry.
OneValue == Put(EmptyMap, 107, 118)

\* Strings given to CookieProvider.SessionRead: empty, not a payload,
\* payloads sealed under the provider's keys now or earlier, and a payload
\* sealed under another hash key.
ReadInputs ==
    LET c == cookiepder.config
    IN  {<<>>, StrA1}
        \cup {encodeCookie(cookiepder.block, c.securityKey, c.securityName, v, ts).str
                : v \in {EmptyMap, OneValue}, ts \in 0..now}
        \cup {encodeCookie(cookiepder.block, <<120>>, c.securityName, OneValue, now).str}

\* CookieProvider.SessionRead called on the provider a Manager holds.
CallSessionRead ==
    \E m \in 1..Len(managers), sid \in ReadInputs :
        LET r == CookieSessionRead(cookiepder, sid, now)
        IN  /\ Idle
            /\ managers[m].provider = "cookiepder"
            /\ op' = Op("CookieProvider.SessionRead", m, NoReq, <<sid>>)
            /\ ret' = Ret(r.store, r.err, NULL, "")
            /\ resp' = <<>>
            /\ calls' = <<Call("Read", <<sid>>, r.err)>>
            /\ UNCHANGED <<provides, cookiepder, mempder, backendDown, managers, now, pending, cstore>>

NextCfg ==
    \/ Register
    \/ NewManagerWide
    \/ CallSessionID
    \/ CallSessionRead
    \/ Tick
    \/ Return

SpecCfg == Init /\ [][NextCfg]_vars

\* ------------------------------------------------- the background sweep
\* A third specification: Managers whose GC has been started, serving
\* requests while the sweep reschedules itself.
\* Manager config strings with no lifetime at all (a session expires once
\* its last access is a second old, the sweep is rescheduled at once).
CfgSweep == JSON([cookieName |-> "SID", sessionIDLength |-> 1])

SweepInputs == {<<"memory", CfgSweep>>, <<"memory", CfgShort>>, <<"cookie", CfgShort>>}

NewManagerSweep ==
    /\ Idle
    /\ Len(managers) < MaxManagers
    /\ \E in \in SweepInputs :
         \E r \in NewManagerResult(provides, in[1], in[2]) :
            /\ managers' = IF r.mgr = NULL THEN managers ELSE Append(managers, r.mgr)
            /\ cookiepder' = r.cookie
            /\ mempder' = r.mem
            /\ op' = Op("NewManager", 0, NoReq, <<in[1], in[2]>>)
            /\ ret' = Ret(NULL, r.err, r.mgr, "")
            /\ resp' = <<>>
            /\ calls' = r.calls
            /\ UNCHANGED <<provides, backendDown, now, pending, cstore>>

\* An invocation of Manager.GC of Manager m that is to come after `delay`
\* nanoseconds.
Invocation(m, delay) == [m |-> m, delay |-> delay]

\* time.Duration(n) * time.Second: a duration, kept as the times are, in
\* seconds and nanoseconds.
Seconds(n) == [sec |-> n, ns |-> 0]

\* go GlobalManager.GC(): done once for a Manager, when it is set up.
GoGC(m) ==
    /\ Idle
    /\ m \in 1..Len(managers)
    /\ \A t \in pending : t.m # m
    /\ pending' = pending \cup {Invocation(m, Seconds(0))}
    /\ UNCHANGED <<provides, cookiepder, mempder, backendDown, managers, now, op, ret, resp,
                   calls, cstore>>

\* GC that sweeps and does not schedule the next sweep.
GC_Once(mgr, m) ==
    [mem |-> ProviderGC(mgr.provider, mempder),
     cookie |-> IF mgr.provider = "cookiepder" THEN CookieSessionGC(cookiepder)
                ELSE cookiepder,
     calls |-> <<Call("GC", <<>>, NoErr)>>,
     scheduled |-> {}]

\* Manager.GC: the provider's state after the sweep, the calls made, and
\* the invocations scheduled with time.AfterFunc.
GC(mgr, m) ==
    [mem |-> ProviderGC(mgr.provider, mempder),
     cookie |-> IF mgr.provider = "cookiepder" THEN CookieSessionGC(cookiepder)
                ELSE cookiepder,
     calls |-> <<Call("GC", <<>>, NoErr),
                 Call("AfterFunc", <<Seconds(mgr.config.gcLifetime)>>, NoErr)>>,
     scheduled |-> {Invocation(m, Seconds(mgr.config.gcLifetime))}]

\* An invocation of Manager.GC that was to come runs.  The operation
\* records the ids the sweep evicted.
ManagerGC(m) ==
    \E t \in pending :
        LET r == GC(managers[m], m)
        IN  /\ Idle
            /\ t.m = m
            /\ mempder' = r.mem
            /\ cookiepder' = r.cookie
            /\ pending' = (pending \ {t}) \cup r.scheduled
            /\ op' = Op("Manager.GC", m, NoReq,
                        <<DOMAIN mempder.sessions \ DOMAIN r.mem.sessions>>)
            /\ ret' = Ret(NULL, NoErr, NULL, "")
            /\ resp' = <<>>
            /\ calls' = r.calls
            /\ UNCHANGED <<provides, backendDown, managers, now, cstore>>

NextSweep ==
    \/ Register
    \/ NewManagerSweep
    \/ \E m \in 1..MaxManagers : GoGC(m)
    \/ \E m \in 1..MaxManagers : ManagerGC(m)
    \/ ManagerStart
    \/ StoreSet
    \/ Tick
    \/ Return

\* A timer that is due fires, whatever requests are being served, and an
\* operation in progress returns.
SpecSweep ==
    /\ Init
    /\ [][NextSweep]_vars
    /\ \A m \in 1..MaxManagers : SF_vars(ManagerGC(m))
    /\ WF_vars(Return)

\* ------------------------------------------------------- the middleware
\* A fourth specification: requests served through the handler Sessioner
\* returns.  One request is in progress at a time; op.args holds where the
\* handler stands and the flash messages of the request, ret the started
\* Store, calls the calls made so far, in order.
SESSION_FLASH_KEY == 95

StrError == <<101, 114, 114, 111, 114>>     \* "error"
StrMsg == <<120, 32>>                        \* "x "

\* url.Values.Encode of the values `v`, a sequence of <<key, value>> in key
\* order.
RECURSIVE Encode(_)
Encode(v) ==
    IF v = <<>> THEN <<>>
    ELSE QueryEscape(v[1][1]) \o <<61>> \o QueryEscape(v[1][2])
         \o (IF Len(v) > 1 THEN <<38>> \o Encode(Tail(v)) ELSE <<>>)

\* The flash messages a handler chain leaves: none, or an error message.
FlashInputs == {<<>>, <<<<StrError, StrMsg>>>>}

\* How the handler chain ends.
Exits == {"return", "error", "panic"}

\* The gob form of a Store's values: key, then the value, the flash string
\* behind its length.
RECURSIVE SerializeValues(_)
SerializeValues(m) ==
    IF DOMAIN m = {} THEN <<>>
    ELSE LET k == CHOOSE x \in DOMAIN m : \A y \in DOMAIN m : x <= y
         IN  (IF k = SESSION_FLASH_KEY THEN <<k, Len(m[k])>> \o m[k] ELSE <<k, m[k]>>)
             \o SerializeValues([y \in DOMAIN m \ {k} |-> m[y]])

\* CookieSessionStore.SessionRelease: the cookies it attaches.
CookieSessionRelease(pder, st, clock) ==
    LET e == encodeCookie(pder.block, pder.config.securityKey, pder.config.securityName,
                          EmptyMap, clock)
    IN  IF e.err # NoErr THEN <<>>
        ELSE <<[NewCookie EXCEPT
                  !.name = pder.config.cookieName,
                  !.value = QueryEscape(e.str \o SerializeValues(st.values)),
                  !.path = "/",
                  !.httpOnly = TRUE,
                  !.secure = pder.config.secure,
                  !.expire = TimeAt(clock + pder.config.maxAge, 0)]>>

\* Release of a Store of the stateful provider: the record of the session
\* takes the Store's values, unless the backing store fails.
MemRelease(pder, st, down) ==
    IF down \/ st.sid \notin DOMAIN pder.sessions THEN pder
    ELSE [pder EXCEPT !.sessions[st.sid] = st.values]

\* Deferred calls that a panic skips.
Deferred_NotOnPanic(exit) == IF exit = "panic" THEN <<>> ELSE <<"Set", "Release">>

\* The calls the handler deferred, run when it exits, however it exits.
Deferred(exit) == <<"Set", "Release">>

\* Where the handler stands.
At(pc) == op.name = "Sessioner" /\ op.args[1] = pc

\* The handler up to its defer statement: Start, and on failure the return
\* of its error.  GlobalManager is the first Manager constructed.  The flash
\* value read back from the Store is one a deferred Set wrote, a string.
MwStart ==
    /\ Idle
    /\ Len(managers) >= 1
    /\ \E req \in Requests :
         \E gen \in sessionID(managers[1]) :
            LET o == Start(managers[1], req, gen)
            IN  /\ Cardinality(DOMAIN o.mem.sessions) <= MaxSessions
                /\ mempder' = o.mem
                /\ op' = Op("Sessioner", 1, req,
                            <<IF o.err # NoErr THEN "returned" ELSE "deferred", <<>>>>)
                /\ ret' = Ret(o.store, o.err, NULL, "")
                /\ resp' = o.resp
                /\ calls' = <<Call("Start", <<>>, o.err)>> \o o.calls
    /\ UNCHANGED <<provides, cookiepder, backendDown, managers, now, pending, cstore>>

\* c.Next(): the handler chain runs, stores values and flash messages, and
\* ends in one of the three ways.
MwNext ==
    /\ At("deferred")
    /\ \E exit \in Exits, f \in FlashInputs, sets \in SUBSET (Keys \X Vals) :
         LET values == [k \in DOMAIN ret.store.values \cup {kv[1] : kv \in sets} |->
                          IF \E kv \in sets : kv[1] = k
                          THEN (CHOOSE kv \in sets : kv[1] = k)[2]
                          ELSE ret.store.values[k]]
             err == IF exit = "error" THEN "handler error" ELSE NoErr
         IN  /\ op' = [op EXCEPT !.args = <<IF Deferred(exit) = <<>> THEN "returned"
                                            ELSE "unwinding", f>>]
             /\ ret' = Ret([ret.store EXCEPT !.values = values], err, NULL,
                           IF exit = "panic" THEN "handler panic" ELSE "")
             /\ calls' = Append(calls, Call("Next", <<>>, err))
    /\ UNCHANGED <<provides, cookiepder, mempder, backendDown, managers, now, resp, pending, cstore>>

\* The deferred sess.Set(SESSION_FLASH_KEY, url.QueryEscape(f.Encode())).
MwSet ==
    /\ At("unwinding")
    /\ LET v == QueryEscape(Encode(op.args[2]))
       IN  /\ ret' = [ret EXCEPT !.store.values = Put(@, SESSION_FLASH_KEY, v)]
           /\ calls' = Append(calls, Call("Set", <<v>>, NoErr))
    /\ op' = [op EXCEPT !.args[1] = "set"]
    /\ UNCHANGED <<provides, cookiepder, mempder, backendDown, managers, now, resp, pending, cstore>>

\* The deferred sess.Release(c), after which the handler returns.
MwRelease ==
    /\ At("set")
    /\ IF managers[op.m].provider = "cookiepder"
       THEN /\ resp' = resp \o CookieSessionRelease(cookiepder, ret.store, now)
            /\ mempder' = mempder
       ELSE /\ resp' = resp
            /\ mempder' = MemRelease(mempder, ret.store, backendDown)
    /\ calls' = Append(calls, Call("Release", <<ret.store.sid>>, NoErr))
    /\ op' = [op EXCEPT !.args[1] = "returned"]
    /\ UNCHANGED <<provides, cookiepder, backendDown, managers, now, ret, pending, cstore>>

NextMw ==
    \/ Register
    \/ NewManager
    \/ MwStart
    \/ MwNext
    \/ MwSet
    \/ MwRelease
    \/ Return

\* A handler that is unwinding runs its deferred calls to the end.
SpecMw ==
    /\ Init
    /\ [][NextMw]_vars
    /\ WF_vars(MwSet)
    /\ WF_vars(MwRelease)

\* ------------------------------------------------------------ the set-up
\* A fifth specification: the application calls Sessioner, any number of
\* times and one call after the other, and the sweep it starts runs.
\* Managers are constructed by Sessioner only.
Options(provider, config) == [provider |-> provider, config |-> config]

\* Options{"memory", `{"cookieName":"MacrossSessionId","gcLifetime":3600}`}
defaultOtions ==
    Options("memory", JSON([cookieName |-> "MacrossSessionId", gcLifetime |-> 3600]))

\* The arguments Sessioner is called with: none, Options without a
\* provider name, and Options naming a provider.
SessionerInputs ==
    {<<>>,
     <<Options("", CfgShort)>>,
     <<Options("cookie", CfgShort)>>,
     <<Options("memory", CfgSweep)>>,
     <<Options("memory", BadJSON)>>}

\* The package variable GlobalManager.
GlobalManager == IF Len(managers) >= 1 THEN managers[1] ELSE NULL

\* A test that always finds the Manager missing.
NoManager_Always(mgr) == TRUE

\* if GlobalManager == nil
NoManager(mgr) == mgr = NULL

\* setup: the Options it settles on.
setupOption(ops) ==
    LET option == IF Len(ops) > 0 THEN ops[1] ELSE defaultOtions
    IN  IF option.provider = "" THEN defaultOtions ELSE option

\* Sessioner(op...): sets the Manager up when there is none, which starts
\* its sweep, and ends the process when that fails; else leaves all as it
\* is.
CallSessioner ==
    /\ Idle
    /\ \E ops \in SessionerInputs :
         IF NoManager(GlobalManager)
         THEN LET option == setupOption(ops)
              IN  \E r \in NewManagerResult(provides, option.provider, option.config) :
                    /\ cookiepder' = r.cookie
                    /\ mempder' = r.mem
                    /\ calls' = <<Call("NewManager", <<>>, r.err)>> \o r.calls
                    /\ op' = Op("Sessioner()", 0, NoReq, <<ops>>)
                    /\ resp' = <<>>
                    /\ IF r.err # NoErr
                       THEN /\ ret' = Ret(NULL, r.err, NULL, "log.Fatalln")
                            /\ UNCHANGED <<managers, pending>>
                       ELSE /\ ret' = Ret(NULL, NoErr, r.mgr, "")
                            /\ managers' = Append(managers, r.mgr)
                            /\ pending' = pending \cup {Invocation(Len(managers) + 1, Seconds(0))}
         ELSE /\ op' = Op("Sessioner()", 0, NoReq, <<ops>>)
              /\ ret' = Ret(NULL, NoErr, GlobalManager, "")
              /\ resp' = <<>>
              /\ calls' = <<>>
              /\ UNCHANGED <<cookiepder, mempder, managers, pending>>
    /\ UNCHANGED <<provides, backendDown, now, cstore>>

NextSetup ==
    \/ Register
    \/ CallSessioner
    \/ \E m \in 1..MaxManagers : ManagerGC(m)
    \/ ManagerStart
    \/ StoreSet
    \/ Tick
    \/ Return

SpecSetup == Init /\ [][NextSetup]_vars

\* ----------------------------------------------------- a Store, shared
\* A sixth specification: one CookieSessionStore whose methods goroutines
\* call at the same time.  A method is called, takes the lock it takes,
\* enters the values map, leaves it, and unlocks as it returns.
Kinds == {"Set", "Get", "Delete", "Flush", "SessionRelease"}

\* The operation writes the values map (or replaces it).
Writes(kind) == kind \in {"Set", "Delete", "Flush"}

\* The lock the method takes before it touches the values map:
\* st.lock.Lock(), st.lock.RLock(), or none.
LockOf(kind) ==
    IF kind \in {"Set", "Delete", "Flush"} THEN "Lock"
    ELSE IF kind = "Get" THEN "RLock"
    ELSE "none"

\* The goroutine is inside the values map.
InMap(p) == cstore.callers[p].pc = "in"

\* The goroutine holds the Store's lock.
Holds(p) == cstore.w = p \/ p \in cstore.r

\* The runtime has not stopped the program.
Running == \A p \in Callers : ~ cstore.callers[p].fatal

\* CookieProvider.SessionRead hands out the Store: &CookieSessionStore{sid,
\* values}.
StoreOpen ==
    /\ Idle
    /\ ~ cstore.open
    /\ \E m \in 1..Len(managers), sid \in Sids :
         /\ managers[m].provider = "cookiepder"
         /\ cstore' = [cstore EXCEPT
                         !.open = TRUE,
                         !.sid = sid,
                         !.values = CookieSessionRead(cookiepder, sid, now).store.values]
    /\ UNCHANGED <<provides, cookiepder, mempder, backendDown, managers, now, op, ret, resp,
                   calls, pending>>

\* A goroutine calls a method of the Store.
StoreCall(p) ==
    /\ Running
    /\ cstore.open
    /\ cstore.callers[p].pc = "idle"
    /\ \E kind \in Kinds, k \in Keys, v \in Vals :
         cstore' = [cstore EXCEPT !.callers[p] =
                      [CallerIdle EXCEPT !.kind = kind, !.pc = "called",
                                         !.key = IF kind \in {"Set", "Get", "Delete"}
                                                 THEN k ELSE 0,
                                         !.val = IF kind = "Set" THEN v ELSE 0]]
    /\ UNCHANGED <<provides, cookiepder, mempder, backendDown, managers, now, op, ret, resp,
                   calls, pending>>

\* st.lock.Lock(): waits until no goroutine holds the lock.
StoreLock(p) ==
    /\ Running
    /\ cstore.callers[p].pc = "called"
    /\ LockOf(cstore.callers[p].kind) = "Lock"
    /\ cstore.w = 0 /\ cstore.r = {}
    /\ cstore' = [cstore EXCEPT !.w = p, !.callers[p].pc = "holding"]
    /\ UNCHANGED <<provides, cookiepder, mempder, backendDown, managers, now, op, ret, resp,
                   calls, pending>>

\* st.lock.RLock(): waits until no goroutine holds the lock for writing.
StoreRLock(p) ==
    /\ Running
    /\ cstore.callers[p].pc = "called"
    /\ LockOf(cstore.callers[p].kind) = "RLock"
    /\ cstore.w = 0
    /\ cstore' = [cstore EXCEPT !.r = @ \cup {p}, !.callers[p].pc = "holding"]
    /\ UNCHANGED <<provides, cookiepder, mempder, backendDown, managers, now, op, ret, resp,
                   calls, pending>>

\* The goroutines whose access to the map overlaps a write, when p is in
\* the map with them.
Overlapped(p) ==
    {q \in Callers \ {p} :
        InMap(q) /\ (Writes(cstore.callers[p].kind) \/ Writes(cstore.callers[q].kind))}

\* The callers after p has moved in the map: every access that overlaps a
\* write, p's included, has raced.
Raced(p, callers) ==
    [q \in Callers |->
        IF q \in Overlapped(p) \/ (q = p /\ Overlapped(p) # {})
        THEN [callers[q] EXCEPT !.raced = TRUE] ELSE callers[q]]

\* The method starts its access to the values map: with the lock it took,
\* or, SessionRelease, without one.
StoreEnter(p) ==
    LET c == cstore.callers[p]
    IN  /\ Running
        /\ \/ c.pc = "holding"
           \/ c.pc = "called" /\ LockOf(c.kind) = "none"
        /\ cstore' = [cstore EXCEPT !.callers =
                        Raced(p, [cstore.callers EXCEPT ![p].pc = "in",
                                                        ![p].saw = cstore.values])]
        /\ UNCHANGED <<provides, cookiepder, mempder, backendDown, managers, now, op, ret,
                       resp, calls, pending>>

\* The values map after the operation.
Written(c, values) ==
    IF c.kind = "Set" THEN Put(values, c.key, c.val)
    ELSE IF c.kind = "Delete" THEN Remove(values, c.key)
    ELSE IF c.kind = "Flush" THEN EmptyMap
    ELSE values

\* The method ends its access.  A read that raced with a write has seen the
\* map as it was or as it is, or the runtime has stopped the program
\* (concurrent map read and map write).  SessionRelease encodes what it saw
\* into the cookie it attaches.
StoreLeave(p) ==
    LET c == cstore.callers[p]
    IN  /\ Running
        /\ c.pc = "in"
        /\ \E saw \in (IF c.raced THEN {c.saw, cstore.values} ELSE {cstore.values}),
              fatal \in (IF c.raced THEN BOOLEAN ELSE {FALSE}) :
             cstore' = [cstore EXCEPT
                          !.values = Written(c, @),
                          !.callers[p] =
                              [c EXCEPT
                                 !.pc = "left",
                                 !.saw = saw,
                                 !.fatal = fatal,
                                 !.cookies =
                                     IF c.kind = "SessionRelease" /\ ~ fatal
                                     THEN CookieSessionRelease(
                                              cookiepder, [sid |-> cstore.sid, values |-> saw],
                                              now)
                                     ELSE <<>>]]
        /\ UNCHANGED <<provides, cookiepder, mempder, backendDown, managers, now, op, ret,
                       resp, calls, pending>>

\* The method returns, and its deferred Unlock or RUnlock runs.
StoreReturn(p) ==
    /\ Running
    /\ cstore.callers[p].pc = "left"
    /\ cstore' = [cstore EXCEPT
                    !.w = IF @ = p THEN 0 ELSE @,
                    !.r = @ \ {p},
                    !.callers[p] = CallerIdle]
    /\ UNCHANGED <<provides, cookiepder, mempder, backendDown, managers, now, op, ret, resp,
                   calls, pending>>

NextStore ==
    \/ NewManager
    \/ StoreOpen
    \/ \E p \in Callers : StoreCall(p)
    \/ \E p \in Callers : StoreLock(p)
    \/ \E p \in Callers : StoreRLock(p)
    \/ \E p \in Callers : StoreEnter(p)
    \/ \E p \in Callers : StoreLeave(p)
    \/ \E p \in Callers : StoreReturn(p)
    \/ Return

SpecStore == Init /\ [][NextStore]_vars

\* ------------------------------------------------------------------ claims
StartOps == {"Start", "SessionStart"}
RegenerateOps == {"RegenerateId", "SessionRegenerateID"}
DestroyOps == {"Destory", "SessionDestroy"}

\* The calls of function fn in a call log.
CallsOf(log, fn) == {i \in 1..Len(log) : log[i].fn = fn}

\* C8: the registry is write-once.  Register panics and leaves the registry
\* unchanged when the provider is nil or the name is already registered,
\* otherwise it adds exactly that mapping; so no step ever removes a name or
\* changes the provider a registered name maps to.
C8_RegistryWriteOnce ==
    [][ /\ \A n \in DOMAIN provides : n \in DOMAIN provides' /\ provides'[n] = provides[n]
        /\ op'.name = "Register" =>
              LET name == op'.args[1]
                  provide == op'.args[2]
              IN  IF provide = NilProvider \/ name \in DOMAIN provides
                  THEN ret'.panic # "" /\ provides' = provides
                  ELSE /\ ret'.panic = ""
                       /\ DOMAIN provides' = DOMAIN provides \cup {name}
                       /\ provides'[name] = provide ]_vars

\* A second registration of a taken name, with another provider, panicked
\* and the name still maps to the first one.
C8_Witness ==
    /\ op.name = "Register"
    /\ ret.panic # ""
    /\ op.args[2] # NilProvider
    /\ op.args[1] \in DOMAIN provides
    /\ provides[op.args[1]] # op.args[2]

\* C9: NewManager returns either a Manager and a nil error, or no Manager
\* and an error, and appends nothing to the Managers in the second case.  It
\* returns the error when the provider name is unknown, when the config is
\* not JSON (in both cases without calling Init, so that no provider state
\* changes) and when the provider's Init fails.
C9_NewManagerAllOrNothing ==
    [][ op'.name = "NewManager" =>
          LET provideName == op'.args[1]
              config == op'.args[2]
              initFailed == \E i \in CallsOf(calls', "Init") : calls'[i].err # NoErr
          IN  /\ \/ ret'.mgr # NULL /\ ret'.err = NoErr
                 \/ ret'.mgr = NULL /\ ret'.err # NoErr
              /\ (provideName \notin DOMAIN provides \/ ~ config.valid) =>
                    /\ ret'.mgr = NULL
                    /\ calls' = <<>>
                    /\ cookiepder' = cookiepder
                    /\ mempder' = mempder
              /\ initFailed => ret'.mgr = NULL
              /\ managers' = IF ret'.mgr = NULL THEN managers
                             ELSE Append(managers, ret'.mgr) ]_vars

\* NewManager called Init, Init failed, and no Manager came back.
C9_Witness ==
    /\ op.name = "NewManager"
    /\ ret.mgr = NULL
    /\ ret.err # NoErr
    /\ \E i \in CallsOf(calls, "Init") : calls[i].err # NoErr

\* A request that names no session: no cookie and no id parameter.
NoIdRequest(req) == ~ req.hasCookie /\ req.form = <<>>

\* The id is in use: a stateful provider holds a record for it.
InUse(p, sid) == p = "mempder" /\ MemExist(mempder, sid)

\* C1 as stated: Start on a request that names no session returns a
\* non-nil Store without keys, and attaches exactly one cookie when
\* EnableSetCookie is true.
C1_Original ==
    (op.name \in StartOps /\ NoIdRequest(op.req)) =>
        /\ ret.store # NULL
        /\ ret.store.values = EmptyMap
        /\ managers[op.m].config.enableSetCookie => Len(resp) = 1

\* C1, amended: Start on a request that names no session generates an id
\* exactly once.  If generation fails it returns no Store, the error, and
\* attaches no cookie.  Otherwise it attaches exactly one cookie, carrying
\* the escaped new id under the configured name, when EnableSetCookie is true
\* and none when it is false; and if the provider's Read succeeds it returns
\* a non-nil Store bound to the new id, without keys unless the new id was
\* already in use, while if Read fails it returns no Store and Read's error.
C1_StartFresh ==
    [][ (op'.name \in StartOps /\ NoIdRequest(op'.req)) =>
          LET mgr == managers[op'.m]
              g == calls'[1]
              sid == g.ids[1]
          IN  /\ CallsOf(calls', "sessionID") = {1}
              /\ IF g.err # NoErr
                 THEN ret'.store = NULL /\ ret'.err = g.err /\ resp' = <<>>
                 ELSE /\ Len(resp') = IF mgr.config.enableSetCookie THEN 1 ELSE 0
                      /\ \A i \in 1..Len(resp') :
                            /\ resp'[i].name = mgr.config.cookieName
                            /\ resp'[i].value = QueryEscape(sid)
                      /\ CallsOf(calls', "Read") = {2}
                      /\ calls'[2].ids = <<sid>>
                      /\ ret'.err = calls'[2].err
                      /\ IF ret'.err # NoErr THEN ret'.store = NULL
                         ELSE /\ ret'.store # NULL
                              /\ ret'.store.sid = sid
                              /\ ~ InUse(mgr.provider, sid) => ret'.store.values = EmptyMap
        ]_vars

\* Start on a request that names no session returned an empty Store and
\* attached one cookie.
C1_Witness ==
    /\ op.name \in StartOps
    /\ NoIdRequest(op.req)
    /\ ret.store # NULL
    /\ ret.store.values = EmptyMap
    /\ Len(resp) = 1

\* C2 as stated: when the id extracted from the request is non-empty and
\* the provider says it exists, Start returns what Provider.Read returns for
\* that id, generates no id and attaches no cookie; in every other case it
\* generates an id, and the Read it makes is on the id generated.
C2_Original ==
    [][ op'.name \in StartOps =>
          LET mgr == managers[op'.m]
              id == getSid(mgr, op'.req).val
              gens == CallsOf(calls', "sessionID")
              reads == CallsOf(calls', "Read")
          IN  IF id # <<>> /\ ProviderExist(mgr.provider, id)
              THEN LET r == ProviderRead(mgr.provider, mempder, id)
                   IN  /\ ret'.store = r.store
                       /\ ret'.err = r.err
                       /\ gens = {}
                       /\ \A i \in reads : calls'[i].ids = <<id>>
                       /\ resp' = <<>>
              ELSE /\ Cardinality(gens) = 1
                   /\ \A j \in gens :
                        /\ calls'[j].err = NoErr => Cardinality(reads) = 1
                        /\ \A i \in reads : calls'[i].ids = calls'[j].ids
        ]_vars

\* C2, amended: when extracting the id fails (the cookie's value cannot be
\* URL-unescaped) Start returns no Store and that error, generates nothing,
\* calls no provider operation and attaches no cookie.  Otherwise, when the
\* id extracted is non-empty and the provider says it exists, Start returns
\* what Provider.Read returns for that id, generates no id and attaches no
\* cookie; and in every remaining case it tries to generate an id exactly
\* once and, if that succeeds, makes exactly one Read, on the id generated.
C2_StartResumeOrMint ==
    [][ op'.name \in StartOps =>
          LET mgr == managers[op'.m]
              g == getSid(mgr, op'.req)
              gens == CallsOf(calls', "sessionID")
              reads == CallsOf(calls', "Read")
          IN  IF g.err # NoErr
              THEN /\ ret'.store = NULL
                   /\ ret'.err = g.err
                   /\ calls' = <<>>
                   /\ resp' = <<>>
                   /\ mempder' = mempder
              ELSE IF g.val # <<>> /\ ProviderExist(mgr.provider, g.val)
              THEN LET r == ProviderRead(mgr.provider, mempder, g.val)
                   IN  /\ ret'.store = r.store
                       /\ ret'.err = r.err
                       /\ mempder' = r.mem
                       /\ gens = {}
                       /\ Cardinality(reads) = 1
                       /\ \A i \in reads : calls'[i].ids = <<g.val>>
                       /\ resp' = <<>>
              ELSE /\ Cardinality(gens) = 1
                   /\ \A j \in gens :
                        /\ calls'[j].err = NoErr => Cardinality(reads) = 1
                        /\ \A i \in reads :
                             /\ j < i
                             /\ calls'[j].err = NoErr
                             /\ calls'[i].ids = calls'[j].ids
                             /\ ret'.store # NULL => ret'.store.sid = calls'[j].ids[1]
        ]_vars

\* Start resumed an existing session that holds data: Exist, then Read of
\* the request's id, nothing generated, no cookie.
C2_Witness ==
    /\ op.name \in StartOps
    /\ CallsOf(calls, "sessionID") = {}
    /\ CallsOf(calls, "Exist") = {1}
    /\ CallsOf(calls, "Read") = {2}
    /\ ret.store # NULL
    /\ ret.store.values # EmptyMap
    /\ resp = <<>>

\* C10: when id generation fails, Start returns no Store and an error, and
\* regeneration returns no Store (RegenerateId with the error); no Read and
\* no Regenerate is called, no cookie is attached, and generation was tried
\* exactly once.
C10_GenerationFailure ==
    \A i \in CallsOf(calls, "sessionID") :
        calls[i].err # NoErr =>
            /\ op.name \in StartOps \cup RegenerateOps
            /\ ret.store = NULL
            /\ op.name \in StartOps \cup {"RegenerateId"} => ret.err = calls[i].err
            /\ resp = <<>>
            /\ CallsOf(calls, "Read") = {}
            /\ CallsOf(calls, "Regenerate") = {}
            /\ CallsOf(calls, "sessionID") = {i}

\* Start failed to generate an id for a request that named no existing
\* session.
C10_Witness ==
    /\ op.name \in StartOps
    /\ \E i \in CallsOf(calls, "sessionID") : calls[i].err # NoErr
    /\ ret.store = NULL
    /\ ret.err # NoErr

\* The provider an operation went to.
OpProvider(o) ==
    IF o.name \in {"Provider.Regenerate", "Provider.Destroy", "Provider.GC"} THEN o.args[1]
    ELSE managers[o.m].provider

\* The request carries a session cookie with a non-empty value.
HasSessionCookie(req) == req.hasCookie /\ req.value # <<>>

\* Provider.Exist as the provider answers it after the step.
ExistAfter(p, sid) ==
    IF p = "cookiepder" THEN CookieSessionExist(cookiepder', sid)
    ELSE MemExist(mempder', sid)

\* C3 as stated: for every provider and ids old # new, after
\* Regenerate(old, new) Exist(old) is false, Exist(new) is true, and every
\* value set under old is in the Store read under new.
C3_Original ==
    [][ \A i \in CallsOf(calls', "Regenerate") :
          LET p == OpProvider(op')
              old == calls'[i].ids[1]
              new == calls'[i].ids[2]
          IN  (calls'[i].err = NoErr /\ old # new) =>
                /\ ~ ExistAfter(p, old)
                /\ ExistAfter(p, new)
                /\ p = "mempder" /\ MemExist(mempder, old) =>
                      LET read == MemRead(mempder', new, FALSE).store.values
                      IN  \A k \in DOMAIN mempder.sessions[old] :
                            k \in DOMAIN read /\ read[k] = mempder.sessions[old][k]
        ]_vars

\* C3, amended: for a provider that keeps server-side records and ids
\* old # new, after a successful Regenerate(old, new) Exist(old) is false,
\* Exist(new) is true, the Store returned is bound to new, and every value
\* set under old is in the Store read under new.  The cookie provider's
\* Regenerate changes nothing and returns neither a Store nor an error, and
\* its Exist is true of old and of new alike.
C3_Regenerate ==
    [][ \A i \in CallsOf(calls', "Regenerate") :
          LET p == OpProvider(op')
              old == calls'[i].ids[1]
              new == calls'[i].ids[2]
          IN  (calls'[i].err = NoErr /\ old # new) =>
                IF p = "cookiepder"
                THEN /\ ret'.store = NULL
                     /\ cookiepder' = cookiepder
                     /\ mempder' = mempder
                     /\ CookieSessionExist(cookiepder', old)
                     /\ CookieSessionExist(cookiepder', new)
                ELSE /\ ~ MemExist(mempder', old)
                     /\ MemExist(mempder', new)
                     /\ ret'.store # NULL
                     /\ ret'.store.sid = new
                     /\ MemExist(mempder, old) =>
                           LET read == MemRead(mempder', new, FALSE).store.values
                           IN  \A k \in DOMAIN mempder.sessions[old] :
                                 k \in DOMAIN read /\ read[k] = mempder.sessions[old][k]
        ]_vars

\* A record holding data was moved from old to new.
C3_Witness ==
    /\ op.name = "Provider.Regenerate"
    /\ op.args[1] = "mempder"
    /\ op.args[2] # op.args[3]
    /\ ret.err = NoErr
    /\ ret.store # NULL
    /\ ret.store.values # EmptyMap
    /\ ~ MemExist(mempder, op.args[2])
    /\ MemExist(mempder, op.args[3])

\* C4: regeneration on a request without a session cookie (absent, or with
\* an empty value), when generation succeeds, calls Provider.Read on the new
\* id and not Regenerate, returns the Store Read returned together with a
\* nil error, and emits a cookie carrying the new id.
C4_RegenerateWithoutCookie ==
    (/\ op.name \in RegenerateOps
     /\ ~ HasSessionCookie(op.req)
     /\ calls[1].err = NoErr) =>
        LET new == calls[1].ids[1]
        IN  /\ CallsOf(calls, "Regenerate") = {}
            /\ CallsOf(calls, "Read") = {2}
            /\ calls[2].ids = <<new>>
            /\ calls[2].err = NoErr => ret.store # NULL /\ ret.store.sid = new
            /\ ret.err = NoErr
            /\ managers[op.m].config.enableSetCookie =>
                  Len(resp) = 1 /\ resp[1].value = QueryEscape(new)

\* C5: regeneration on a request whose session cookie has the non-empty
\* value oldID calls Provider.Regenerate(oldID, newID) exactly once, returns
\* a non-nil Store bound to newID when that call succeeds, whatever the
\* provider, and emits a cookie carrying newID with the secure and domain
\* attributes of the request's cookie.
C5_RegenerateWithCookie ==
    (/\ op.name \in RegenerateOps
     /\ HasSessionCookie(op.req)
     /\ calls[1].err = NoErr) =>
        LET new == calls[1].ids[1]
            old == QueryUnescape(op.req.value).val
        IN  /\ CallsOf(calls, "Regenerate") = {2}
            /\ calls[2].ids = <<old, new>>
            /\ calls[2].err = NoErr => ret.store # NULL /\ ret.store.sid = new
            /\ managers[op.m].config.enableSetCookie =>
                  /\ Len(resp) = 1
                  /\ resp[1].value = QueryEscape(new)
                  /\ resp[1].secure = op.req.secure
                  /\ resp[1].domain = op.req.domain

\* C6 as stated: destroy on a request without a session cookie calls no
\* provider operation and attaches no cookie; on a request with one it calls
\* the provider's destroy exactly once for the cookie's id and emits a cookie
\* of the configured name that expires now.
C6_Original ==
    op.name \in DestroyOps =>
        IF ~ HasSessionCookie(op.req)
        THEN calls = <<>> /\ resp = <<>>
        ELSE /\ Len(calls) = 1
             /\ calls[1].fn = "Destroy"
             /\ calls[1].ids[1] \in {op.req.value, QueryUnescape(op.req.value).val}
             /\ Len(resp) = 1
             /\ resp[1].name = managers[op.m].config.cookieName
             /\ resp[1].expire = TimeAt(now, 0)

\* C6, amended: destroy on a request without a session cookie, or with an
\* empty one, calls no provider operation, attaches no cookie and changes no
\* provider state.  With a non-empty cookie it calls the provider's destroy
\* exactly once: SessionDestroy for the URL-unescaped value, after which it
\* emits the cookie only if EnableSetCookie is true; Destory for the value as
\* it is, after which it emits the cookie only if the provider returned no
\* error, and returns that error otherwise.  The cookie has the configured
\* name, an empty value and the current time as expiry.
C6_Destroy ==
    [][ op'.name \in DestroyOps =>
          LET mgr == managers[op'.m]
              req == op'.req
          IN  IF ~ HasSessionCookie(req)
              THEN calls' = <<>> /\ resp' = <<>> /\ mempder' = mempder /\ ret'.err = NoErr
              ELSE LET sid == IF op'.name = "Destory" THEN req.value
                              ELSE QueryUnescape(req.value).val
                       emit == IF op'.name = "Destory" THEN calls'[1].err = NoErr
                               ELSE mgr.config.enableSetCookie
                   IN  /\ Len(calls') = 1
                       /\ calls'[1] = Call("Destroy", <<sid>>, calls'[1].err)
                       /\ Len(resp') = IF emit THEN 1 ELSE 0
                       /\ \A i \in 1..Len(resp') :
                            /\ resp'[i].name = mgr.config.cookieName
                            /\ resp'[i].value = <<>>
                            /\ resp'[i].expire = TimeAt(now', 0)
                       /\ ret'.err = IF op'.name = "Destory" THEN calls'[1].err ELSE NoErr
        ]_vars

\* A destroy at time 1 emitted the cookie that expires at time 1.
C6_Witness ==
    /\ op.name \in DestroyOps
    /\ HasSessionCookie(op.req)
    /\ now = 1
    /\ CallsOf(calls, "Destroy") = {1}
    /\ Len(resp) = 1
    /\ resp[1].expire = TimeAt(1, 0)

\* C7: destroy is idempotent.  In the state a destroy has left, the same
\* destroy again (Provider.Destroy of the same id, Manager destroy of the
\* same request) changes no provider state, and returns no error if the
\* first returned none, although the id no longer exists.
C7_DestroyIdempotent ==
    /\ op.name = "Provider.Destroy" =>
          LET again == ProviderDestroy(op.args[1], mempder, op.args[2])
          IN  /\ again.mem = mempder
              /\ ret.err = NoErr => again.err = NoErr
              /\ (ret.err = NoErr /\ op.args[1] = "mempder") =>
                    ~ MemExist(mempder, op.args[2])
    /\ op.name = "Destory" =>
          LET again == Destory(managers[op.m], op.req)
          IN  /\ again.mem = mempder
              /\ ret.err = NoErr => again.err = NoErr
    /\ op.name = "SessionDestroy" =>
          LET again == SessionDestroy(managers[op.m], op.req)
          IN  /\ again.mem = mempder
              /\ \A i \in CallsOf(calls, "Destroy") :
                    calls[i].err = NoErr =>
                      \A j \in CallsOf(again.calls, "Destroy") : again.calls[j].err = NoErr

\* Provider.Destroy removed an id from a provider that still holds another
\* session.
C7_Witness ==
    /\ op.name = "Provider.Destroy"
    /\ op.args[1] = "mempder"
    /\ ret.err = NoErr
    /\ ~ MemExist(mempder, op.args[2])
    /\ MemCount(mempder) >= 1

\* C17: id extraction gives the cookie precedence.  With a non-empty
\* cookie the id is its URL-unescaped value and the query/form parameter is
\* ignored; with the cookie absent or empty the id is the query/form
\* parameter; with neither it is empty, without error.  The only error is a
\* cookie value that cannot be unescaped, and then Start returns that error
\* and no Store.  Start acts on that id: it probes the provider for it when
\* it is non-empty and generates an id at once when it is empty.
C17_GetSidPrecedence ==
    op.name \in StartOps =>
        LET mgr == managers[op.m]
            req == op.req
            expected == IF HasSessionCookie(req) THEN QueryUnescape(req.value)
                        ELSE [val |-> req.form, err |-> NoErr]
        IN  /\ getSid(mgr, req) = expected
            /\ expected.err # NoErr => HasSessionCookie(req) /\ ~ EscapeOK(req.value)
            /\ IF expected.err # NoErr
               THEN ret.store = NULL /\ ret.err = expected.err /\ calls = <<>>
               ELSE IF expected.val # <<>>
               THEN calls[1] = Call("Exist", <<expected.val>>, NoErr)
               ELSE calls[1].fn = "sessionID"

\* Start on a request whose cookie and form parameter name different ids
\* probed the provider for the cookie's.
C17_Witness ==
    /\ op.name \in StartOps
    /\ HasSessionCookie(op.req)
    /\ op.req.form # <<>>
    /\ op.req.form # QueryUnescape(op.req.value).val
    /\ calls[1] = Call("Exist", <<QueryUnescape(op.req.value).val>>, NoErr)

\* C19: the cookie that Start and regeneration emit expires at the current
\* time plus cookieLifetime seconds when cookieLifetime is greater than 0,
\* and carries no expiry when cookieLifetime is 0.
C19_CookieExpiry ==
    (op.name \in StartOps \cup RegenerateOps) =>
        \A i \in 1..Len(resp) :
            LET lifetime == managers[op.m].config.cookieLifetime
            IN  resp[i].expire = IF lifetime > 0 THEN TimeAt(now + lifetime, 0)
                                 ELSE NoExpire

\* What decoding the string the last SessionRead was given yields.
Decoded(sid) ==
    decodeCookie(cookiepder.block, cookiepder.config.securityKey,
                 cookiepder.config.securityName, sid, cookiepder.maxLifetime, now)

\* C14: CookieProvider.SessionRead never fails and never returns a nil
\* Store.  For every input string, a payload that fails authentication or is
\* too old included, it returns a nil error and a Store whose SessionID is
\* the input; when decoding fails the Store holds no data, and when it
\* succeeds the Store holds the decoded data.
C14_SessionReadNeverFails ==
    op.name = "CookieProvider.SessionRead" =>
        LET sid == op.args[1]
        IN  /\ ret.err = NoErr
            /\ ret.store # NULL
            /\ ret.store.sid = sid
            /\ ret.store.values = IF Decoded(sid).err # NoErr THEN EmptyMap
                                  ELSE Decoded(sid).maps

\* SessionRead was given a payload that carries data and is too old, and
\* returned an empty Store without error.
C14_Witness ==
    /\ op.name = "CookieProvider.SessionRead"
    /\ Decoded(op.args[1]).err = "ExpiredError"
    /\ ret.err = NoErr
    /\ ret.store # NULL
    /\ ret.store.values = EmptyMap

\* Lower-case hexadecimal digits.
IsLowerHex(c) == (c >= 48 /\ c <= 57) \/ (c >= 97 /\ c <= 102)

\* C16: for a configured length n the identifier generator returns, on
\* success, exactly 2*n characters, each in [0-9a-f]; on failure of the
\* random source it returns an error and the empty id.  NewManager
\* configures n = 16 when sessionIDLength is unset or 0, and the length
\* given otherwise.
C16_SessionIDFormat ==
    /\ op.name = "sessionID" =>
          LET n == managers[op.m].config.sessionIDLength
              sid == calls[1].ids[1]
          IN  IF ret.err = NoErr
              THEN Len(sid) = 2 * n /\ \A i \in 1..Len(sid) : IsLowerHex(sid[i])
              ELSE sid = <<>>
    /\ (op.name = "NewManager" /\ ret.mgr # NULL) =>
          LET given == op.args[2].fields
          IN  ret.mgr.config.sessionIDLength =
                IF "sessionIDLength" \in DOMAIN given /\ given.sessionIDLength # 0
                THEN given.sessionIDLength ELSE 16

\* A Manager configured without a length generated an id of 32 characters,
\* letters among them.
C16_Witness ==
    /\ op.name = "sessionID"
    /\ ret.err = NoErr
    /\ Len(calls[1].ids[1]) = 32
    /\ \E i \in 1..32 : calls[1].ids[1][i] >= 97

\* C18: Managers are independent.  Constructing another Manager, with the
\* same or another provider name, changes nothing of the provider state
\* (max lifetime, provider-specific configuration) that a Manager
\* constructed earlier uses.
C18_ManagersIndependent ==
    [][ op'.name = "NewManager" =>
          \A m \in 1..Len(managers) :
              /\ managers[m].provider = "cookiepder" => cookiepder' = cookiepder
              /\ managers[m].provider = "mempder" => mempder' = mempder
        ]_vars

\* C20: after CookieProvider.SessionInit has returned without error, the
\* block key and the security (hash) key of the provider are both
\* non-empty, whatever the configuration string: a key the configuration
\* lacks has been generated.
C20_KeysNonEmpty ==
    (/\ op.name = "NewManager"
     /\ ret.mgr # NULL
     /\ ret.mgr.provider = "cookiepder"
     /\ calls = <<Call("Init", <<>>, NoErr)>>) =>
        /\ cookiepder.config.blockKey # <<>>
        /\ cookiepder.config.securityKey # <<>>

\* The sessions of the stateful provider that a sweep at the present time
\* finds expired.
ExpiredNow == {sid \in DOMAIN mempder.sessions : MemExpired(mempder, sid, now)}

\* A sweep of Manager m is to come.
SweepPending(m) == \E t \in pending : t.m = m

\* C15: for a stateful provider driven through Manager.GC, a session whose
\* last access is more than maxLifetime seconds in the past does not exist
\* after the GC call, and every other session still exists with the data it
\* had; and while sweeps of the Manager are to come, an expired session is
\* in the end evicted, unless a request accesses it again first.
C15_SweepEvictsExpired ==
    /\ [][(Idle /\ op'.name = "Manager.GC"
             /\ managers[op'.m].provider = "mempder") =>
            \A sid \in DOMAIN mempder.sessions :
                IF sid \in ExpiredNow
                THEN ~ MemExist(mempder', sid)
                ELSE /\ MemExist(mempder', sid)
                     /\ mempder'.sessions[sid] = mempder.sessions[sid]]_vars
    /\ \A m \in 1..MaxManagers : \A sid \in Sids :
          (/\ m \in 1..Len(managers)
           /\ managers[m].provider = "mempder"
           /\ SweepPending(m)
           /\ sid \in ExpiredNow)
          ~> (sid \notin ExpiredNow)

\* A sweep evicted an expired session and kept a session that holds data.
C15_Witness ==
    /\ op.name = "Manager.GC"
    /\ managers[op.m].provider = "mempder"
    /\ op.args[1] # {}
    /\ \E sid \in DOMAIN mempder.sessions : mempder.sessions[sid] # EmptyMap

\* C11: the sweep never stops.  Every invocation of Manager.GC calls
\* Provider.GC exactly once and then schedules exactly one further
\* invocation of Manager.GC, GcLifetime seconds later; an invocation that is
\* to come is never cancelled, it goes only by running; so once Manager.GC
\* has been started for a Manager it runs infinitely often.
C11_SweepForever ==
    /\ [][(Idle /\ op'.name = "Manager.GC") =>
            LET m == op'.m
                after == Seconds(managers[m].config.gcLifetime)
            IN  /\ Len(calls') = 2
                /\ CallsOf(calls', "GC") = {1}
                /\ CallsOf(calls', "AfterFunc") = {2}
                /\ calls'[2].ids = <<after>>
                /\ {t \in pending' : t.m = m} = {Invocation(m, after)}]_vars
    /\ [][\A t \in pending :
            t \notin pending' => (Idle /\ op'.name = "Manager.GC" /\ op'.m = t.m)]_vars
    /\ [][\A m \in 1..MaxManagers : SweepPending(m) => SweepPending(m)']_vars
    /\ \A m \in 1..MaxManagers :
          [](SweepPending(m) => []<>(op.name = "Manager.GC" /\ op.m = m))

\* An invocation of Manager.GC that was scheduled by an earlier one, two
\* seconds before, has run and has scheduled the next.
C11_Witness ==
    /\ op.name = "Manager.GC"
    /\ managers[op.m].config.gcLifetime = 2
    /\ Len(calls) = 2
    /\ pending = {Invocation(op.m, Seconds(2))}

\* The operation in progress is a call of Provider.Destroy, Regenerate or GC
\* on the cookie provider, or a Manager operation that makes such calls.
OnCookieProvider(o) ==
    \/ /\ o.name \in {"Provider.Destroy", "Provider.Regenerate", "Provider.GC"}
       /\ o.args[1] = "cookiepder"
    \/ /\ o.name \in DestroyOps \cup RegenerateOps \cup {"Manager.GC"}
       /\ managers[o.m].provider = "cookiepder"

\* The request carries a non-empty id, in its cookie or in its form.
CarriesId(req) == HasSessionCookie(req) \/ req.form # <<>>

\* C13: the cookie provider keeps no record.  In every reachable state
\* Exist is true for every id (the one just read included) and Count is 0;
\* Destroy, Regenerate and GC, called directly or by a Manager, change no
\* provider state; and so Manager.Start with the cookie provider, on a
\* request carrying a non-empty id, never generates an id and never
\* attaches a cookie.
C13_CookieProviderStateless ==
    /\ [](/\ \A sid \in Sids \cup {<<>>, StrBadEsc} : CookieSessionExist(cookiepder, sid)
          /\ CookieSessionCount(cookiepder) = 0
          /\ \A i \in CallsOf(calls, "Read") :
                (op.name \in StartOps /\ managers[op.m].provider = "cookiepder") =>
                    CookieSessionExist(cookiepder, calls[i].ids[1]))
    /\ [][(Idle /\ OnCookieProvider(op')) =>
            (cookiepder' = cookiepder /\ mempder' = mempder)]_vars
    /\ [](/\ op.name = "Start"
          /\ managers[op.m].provider = "cookiepder"
          /\ CarriesId(op.req)
          => /\ CallsOf(calls, "sessionID") = {}
             /\ resp = <<>>)

\* Manager.Start with the cookie provider resumed the id of the request,
\* whatever it was, and attached nothing.
C13_Witness ==
    /\ op.name = "Start"
    /\ managers[op.m].provider = "cookiepder"
    /\ managers[op.m].config.enableSetCookie
    /\ CarriesId(op.req)
    /\ ret.store # NULL
    /\ CallsOf(calls, "Exist") # {}
    /\ resp = <<>>

\* C12: the middleware brackets the handler chain.  Start is its first
\* call, before the handler chain.  If Start fails, the handler returns
\* without running the chain and without Set or Release.  If Start
\* succeeds, Release is called at most once, on the Store Start returned,
\* after the chain has ended and after the flash value was set in that
\* Store; the handler has not returned before Release was called, whether
\* the chain returned, failed or panicked; and once the chain has ended
\* Release does follow.
C12_ReleaseOnEveryExit ==
    /\ [](op.name = "Sessioner" =>
            LET starts == CallsOf(calls, "Start")
                nexts == CallsOf(calls, "Next")
                sets == CallsOf(calls, "Set")
                releases == CallsOf(calls, "Release")
            IN  /\ starts = {1}
                /\ Cardinality(nexts) <= 1
                /\ calls[1].err # NoErr =>
                      /\ nexts = {} /\ sets = {} /\ releases = {}
                      /\ At("returned")
                /\ calls[1].err = NoErr =>
                      /\ ret.store # NULL
                      /\ Cardinality(releases) <= 1
                      /\ \A r \in releases :
                            /\ \E n \in nexts : \E w \in sets :
                                  /\ n < w /\ w < r
                                  /\ ret.store.values[SESSION_FLASH_KEY] = calls[w].ids[1]
                            /\ \A i \in CallsOf(calls, "Read") :
                                  i < r /\ calls[r].ids = calls[i].ids
                      /\ At("returned") => (nexts # {} /\ releases # {}))
    /\ [](At("unwinding") => <>(At("returned") /\ CallsOf(calls, "Release") # {}))

\* The handler chain left an error message and panicked, and the handler
\* has set the flash value and released the Store.
C12_Witness ==
    /\ At("returned")
    /\ ret.panic = "handler panic"
    /\ CallsOf(calls, "Release") = {Len(calls)}
    /\ ret.store.values[SESSION_FLASH_KEY] = QueryEscape(Encode(<<<<StrError, StrMsg>>>>))

\* C22: with EnableSetCookie false no Manager operation attaches a cookie:
\* after Start, regeneration or destroy the response carries none.
C22_NoCookieWhenDisabled ==
    (/\ op.name \in StartOps \cup RegenerateOps \cup DestroyOps
     /\ ~ managers[op.m].config.enableSetCookie)
    => resp = <<>>

\* C23: when Manager.Start, Manager.SessionStart or Manager.Destory
\* returns a non-nil error, that call attached no cookie.
C23_NoCookieOnError ==
    (op.name \in StartOps \cup {"Destory"} /\ ret.err # NoErr) => resp = <<>>

\* C24: the id of every Store that Start returns is either the id the
\* request named, for which Provider.Exist held when Start was called, or
\* the id the generator produced in that call; so an id the request names
\* for which no session exists is the id of the returned Store only when
\* the generator produced that very id.
C24_NeverAdoptsUnknownId ==
    [][(Idle /\ op'.name \in StartOps /\ ret'.store # NULL) =>
        LET mgr == managers[op'.m]
            g == getSid(mgr, op'.req)
            minted == {calls'[i].ids[1] : i \in {j \in CallsOf(calls', "sessionID") :
                                                   calls'[j].err = NoErr}}
        IN  \/ /\ g.err = NoErr
               /\ g.val # <<>>
               /\ ProviderExist(mgr.provider, g.val)
               /\ ret'.store.sid = g.val
               /\ minted = {}
            \/ /\ ~ (g.val # <<>> /\ ProviderExist(mgr.provider, g.val))
               /\ minted = {ret'.store.sid}]_vars

\* Start on a request naming an id the stateful provider does not hold
\* (any more) returned a Store under another, generated id.
C24_Witness ==
    /\ op.name \in StartOps
    /\ managers[op.m].provider = "mempder"
    /\ ret.store # NULL
    /\ getSid(managers[op.m], op.req).val # <<>>
    /\ ret.store.sid # getSid(managers[op.m], op.req).val
    /\ ~ MemExist(mempder, getSid(managers[op.m], op.req).val)
    /\ CallsOf(calls, "sessionID") # {}

\* C25: Manager destroy acts on the session Start resolves.  On a request
\* for which Start would return the existing session s of a stateful
\* provider, carried in the cookie or as a query/form parameter, destroy
\* calls Provider destroy with exactly s, and with the backing store up
\* Exist(s) is false afterwards.
C25_DestroyResolvesLikeStart ==
    [][(/\ Idle
        /\ op'.name \in DestroyOps
        /\ managers[op'.m].provider = "mempder"
        /\ ~ backendDown
        /\ getSid(managers[op'.m], op'.req).err = NoErr
        /\ getSid(managers[op'.m], op'.req).val # <<>>
        /\ MemExist(mempder, getSid(managers[op'.m], op'.req).val))
       => LET s == getSid(managers[op'.m], op'.req).val
          IN  /\ \E i \in CallsOf(calls', "Destroy") : calls'[i].ids = <<s>>
              /\ ~ MemExist(mempder', s)]_vars

\* C26: the application has one Manager and one sweep.  However often
\* Sessioner is called, GlobalManager is constructed at most once: a call
\* that finds it set changes neither the Managers, nor the providers, nor
\* the sweeps to come, whatever its Options; and from its construction on
\* there is exactly one invocation of Manager.GC to come, the one of
\* GlobalManager.
C26_OneManagerOneSweep ==
    /\ [](/\ Len(managers) <= 1
          /\ Cardinality(pending) <= 1
          /\ GlobalManager # NULL => (\E n \in {0, GlobalManager.config.gcLifetime} :
                                       pending = {Invocation(1, Seconds(n))})
          /\ GlobalManager = NULL => pending = {})
    /\ [][(Idle /\ op'.name = "Sessioner()" /\ GlobalManager # NULL) =>
            /\ managers' = managers
            /\ pending' = pending
            /\ cookiepder' = cookiepder
            /\ mempder' = mempder
            /\ ret'.mgr = GlobalManager]_vars

\* Sessioner, called with Options naming the cookie provider after the
\* Manager was set up over the stateful provider and its sweep has run,
\* returned with that Manager.
C26_Witness ==
    /\ op.name = "Sessioner()"
    /\ op.args[1] = <<Options("cookie", CfgShort)>>
    /\ Len(managers) = 1
    /\ ret.mgr = GlobalManager
    /\ GlobalManager.provider = "mempder"
    /\ pending = {Invocation(1, Seconds(GlobalManager.config.gcLifetime))}
    /\ GlobalManager.config.gcLifetime > 0

\* C21: a Store serializes every access to its own data.  Every method
\* that is inside the values map of the CookieSessionStore holds the
\* Store's lock, and no write to the map overlaps another access to it.
C21_StoreSerialized ==
    \A p \in Callers :
        InMap(p) =>
            /\ Holds(p)
            /\ Writes(cstore.callers[p].kind) => \A q \in Callers \ {p} : ~ InMap(q)
====
